---- MODULE Spec2Model ----
(***************************************************************************)
(* Model of the MCP gateway federation engine: the router's namespacing,   *)
(* the registry, the base adapter (request correlation, circuit breaker)   *)
(* and the gateway facade.                                                 *)
(*                                                                         *)
(* Strings are sequences of one-character strings, so that indexOf,        *)
(* substring and concatenation are computed as the code computes them.     *)
(***************************************************************************)
EXTENDS Integers, Sequences, FiniteSets, TLC

VARIABLES
    ns,         \* router namespacing: inputs and results of create/parse calls
    registry,   \* Registry.adapters: the registered ids, in Map insertion order
    adapter,    \* per backend id: the fields of its BaseAdapter and transport
    backend,    \* per backend id: requests written to the transport, not yet answered
    now,        \* Date.now(), in milliseconds
    client,     \* the gateway's client: the request being handled and the last reply
    front       \* the HTTP front: Gateway.sessions, sseConnections, POST /message

vars == <<ns, registry, adapter, backend, now, client, front>>

\* ------------------------------------------------------------------ bounds
MaxIdLen == 2
MaxNameLen == 2
\* original URIs and strings handed to the parsers
MaxUriLen == 5
MaxRawLen == 5
\* the gateway specification: start() runs of all adapters together, client
\* requests
MaxStarts == 2
MaxClientRequests == 1
\* the parameter specification: client requests
MaxParamCalls == 2
\* the stop specification: client requests, start() runs
MaxStopCalls == 2
MaxStopStarts == 3
\* the disabled-backend specification: client requests
MaxDisabledCalls == 2
\* the breaker specification: request ids, requests outstanding at a time,
\* client calls, clock ticks
MaxBreakerRequestId == 12
MaxInFlight == 1
MaxBreakerCalls == 1
MaxTicks == 2
\* the request specification: request ids, requests outstanding at a time
MaxRequestId == 4
MaxPending == 2
\* the session specification: event streams opened, messages posted, clock
\* ticks
MaxSessions == 2
MaxPosts == 2
MaxSessionTicks == 6

\* ------------------------------------------------------------- characters
Letters == {"a"}
Digits == {"1"}
IdChars == Letters \cup Digits \cup {"_", "-"}
NameChars == {"x", "_"}
\* JavaScript line terminators: what '.' of a regular expression skips
LineTerminators == {"\n"}
UriChars == Letters \cup {":", "/"} \cup LineTerminators
RawChars == Letters \cup Digits \cup {"_", ":", "/"}

\* All strings over alphabet of length 1..n.
Strings(alphabet, n) == UNION {[1..k -> alphabet] : k \in 1..n}

\* ---------------------------------------------------------- string library
\* String.prototype.substring(start, end): 0-based, end exclusive.
Substring(str, start, end) == SubSeq(str, start + 1, end)

\* String.prototype.indexOf(sep): the first 0-based position at which sep
\* occurs, -1 when it does not occur.
IndexOf(str, sep) ==
    LET hits == {i \in 0..(Len(str) - Len(sep)) :
                    Substring(str, i, i + Len(sep)) = sep}
    IN  IF hits = {} THEN -1
        ELSE CHOOSE i \in hits : \A j \in hits : i <= j

\* ------------------------------------------------------------ config-loader
\* ServerConfigSchema.id: .min(1).max(64).regex(/^[a-zA-Z][a-zA-Z0-9_-]*$/)
MaxServerIdLength == 64

ServerIdAdmitted(s) ==
    /\ Len(s) >= 1
    /\ Len(s) <= MaxServerIdLength
    /\ s[1] \in Letters
    /\ \A i \in 2..Len(s) : s[i] \in IdChars

\* ------------------------------------------------------------------ router
NAMESPACE_SEPARATOR == <<"_", "_">>

\* The null a parse returns: no real result has an empty half.
NullName == [serverId |-> <<>>, originalName |-> <<>>]

\* Router.createNamespacedName
createNamespacedName(serverId, name) == serverId \o NAMESPACE_SEPARATOR \o name

\* A parse that lets an empty original name through.
parseNamespacedNameLoose(namespacedName) ==
    LET separatorIndex == IndexOf(namespacedName, NAMESPACE_SEPARATOR)
        serverId == Substring(namespacedName, 0, separatorIndex)
        originalName == Substring(namespacedName,
                                  separatorIndex + Len(NAMESPACE_SEPARATOR),
                                  Len(namespacedName))
    IN  IF separatorIndex = -1 THEN NullName
        ELSE IF serverId = <<>> THEN NullName
        ELSE [serverId |-> serverId, originalName |-> originalName]

\* Router.parseNamespacedName
parseNamespacedName(namespacedName) ==
    LET separatorIndex == IndexOf(namespacedName, NAMESPACE_SEPARATOR)
        serverId == Substring(namespacedName, 0, separatorIndex)
        originalName == Substring(namespacedName,
                                  separatorIndex + Len(NAMESPACE_SEPARATOR),
                                  Len(namespacedName))
    IN  IF separatorIndex = -1 THEN NullName
        ELSE IF serverId = <<>> \/ originalName = <<>> THEN NullName
        ELSE [serverId |-> serverId, originalName |-> originalName]

\* ------------------------------------------------------------ base adapter
\* circuitBreakerConfig
failureThreshold == 5
successThreshold == 2
circuitTimeout == 30000
volumeThreshold == 10

\* JSON-RPC error codes used by the adapter, the router and the gateway
CodeInvalidParams == -32602
CodeInternal == -32603
CodeServer == -32000

\* ServerCapabilities | null: present = FALSE is null; a group the handshake
\* did not fetch is empty.
NoCapabilities ==
    [present |-> FALSE, tools |-> <<>>, resources |-> <<>>, prompts |-> <<>>]

\* Who awaits a promise: a routed client request (cid), the handshake of
\* start number run (at the given phase, with the capabilities fetched so
\* far), the health probe, the retry supervisor, registerServer; or nobody.
Awaiter(kind, cid, run, phase, caps) ==
    [kind |-> kind, cid |-> cid, run |-> run, phase |-> phase, caps |-> caps]

NoAwaiter == Awaiter("none", 0, 0, "", NoCapabilities)

\* A BaseAdapter (with the fields of its transport subclass) as constructed
\* at time t for a backend of the given transport kind.
\*   transport: "none" (process / eventSource is null), "connecting" (an
\*   EventSource that is not OPEN yet, or reconnecting), "open" (isConnected()),
\*   "closed" (the child has exited / the EventSource is CLOSED, the object is
\*   still referenced).  endpoint: SSEAdapter.messageEndpoint is set.
\*   startPc: where the start() in progress stands ("connect": awaiting
\*   spawnProcess / connectSSE, "handshake": awaiting initialize()).
\*   starts: how many start() runs have begun; retryCount: retryState.count;
\*   errorCount: stats.errorCount;
\*   retryTimers: retry timers scheduled by handleCrash and not fired yet.
\*   timers: the request ids whose deadline timer is armed; settled: the
\*   request ids whose promise has been resolved or rejected.
\*   orphans: the children (by start run) that were killed or signalled and
\*   are no longer referenced, whose exit event has not been delivered;
\*   stopping: the run of the child whose exit a stop() in progress awaits
\*   (0: no stop in progress); sigkill: the children (by start run) that a
\*   stop() timer sent SIGKILL.
NewAdapter(kind, t) ==
    [ kind                |-> kind,
      health              |-> "stopped",
      capabilities        |-> NoCapabilities,
      transport           |-> "none",
      endpoint            |-> FALSE,
      isStarting          |-> FALSE,
      startPc             |-> "idle",
      startCaller         |-> NoAwaiter,
      starts              |-> 0,
      retryCount          |-> 0,
      retryTimers         |-> 0,
      pendingRequests     |-> {},
      timers              |-> {},
      settled             |-> {},
      orphans             |-> {},
      stopping            |-> 0,
      sigkill             |-> {},
      nextRequestId       |-> 1,
      errorCount          |-> 0,
      circuitBreakerState |-> "closed",
      consecutiveFailures |-> 0,
      consecutiveSuccesses|-> 0,
      totalRequests       |-> 0,
      lastStateChange     |-> t ]

\* StdioAdapter.isConnected / SSEAdapter.isConnected
isConnected(a) == a.transport = "open"

\* A breaker that never reports open.
neverOpen(a, t) == FALSE

\* BaseAdapter.isCircuitBreakerOpen: the value it returns
isCircuitBreakerOpen(a, t) ==
    IF a.circuitBreakerState = "closed" THEN FALSE
    ELSE IF a.circuitBreakerState = "open"
         THEN ~(t - a.lastStateChange >= circuitTimeout)
         ELSE FALSE

\* A breaker that lets requests through after the timeout but stays open.
stayOpen(a, t) == a

\* BaseAdapter.isCircuitBreakerOpen: the adapter after the call (an open
\* breaker whose timeout has elapsed becomes half-open)
afterCircuitBreakerCheck(a, t) ==
    IF /\ a.circuitBreakerState = "open"
       /\ t - a.lastStateChange >= circuitTimeout
    THEN [a EXCEPT !.circuitBreakerState = "half-open",
                   !.consecutiveSuccesses = 0]
    ELSE a

\* A recordSuccess that leaves the failure counter as it is.
recordSuccessKeepFailures(a, t) ==
    LET b == [a EXCEPT !.totalRequests = @ + 1,
                       !.consecutiveSuccesses = @ + 1]
    IN  IF /\ b.circuitBreakerState = "half-open"
           /\ b.consecutiveSuccesses >= successThreshold
        THEN [b EXCEPT !.circuitBreakerState = "closed",
                       !.lastStateChange = t]
        ELSE b

\* BaseAdapter.recordSuccess
recordSuccess(a, t) ==
    LET b == [a EXCEPT !.totalRequests = @ + 1,
                       !.consecutiveFailures = 0,
                       !.consecutiveSuccesses = @ + 1]
    IN  IF /\ b.circuitBreakerState = "half-open"
           /\ b.consecutiveSuccesses >= successThreshold
        THEN [b EXCEPT !.circuitBreakerState = "closed",
                       !.lastStateChange = t]
        ELSE b

\* A recordFailure that opens on the failure threshold alone.
recordFailureAnyVolume(a, t) ==
    LET b == [a EXCEPT !.totalRequests = @ + 1,
                       !.consecutiveFailures = @ + 1,
                       !.consecutiveSuccesses = 0]
    IN  IF /\ b.consecutiveFailures >= failureThreshold
           /\ b.circuitBreakerState # "open"
        THEN [b EXCEPT !.circuitBreakerState = "open",
                       !.lastStateChange = t,
                       !.health = "unhealthy"]
        ELSE b

\* BaseAdapter.recordFailure
recordFailure(a, t) ==
    LET b == [a EXCEPT !.totalRequests = @ + 1,
                       !.consecutiveFailures = @ + 1,
                       !.consecutiveSuccesses = 0]
        volumeThresholdMet == b.totalRequests >= volumeThreshold
        failureThresholdExceeded == b.consecutiveFailures >= failureThreshold
    IN  IF /\ volumeThresholdMet
           /\ failureThresholdExceeded
           /\ b.circuitBreakerState # "open"
        THEN [b EXCEPT !.circuitBreakerState = "open",
                       !.lastStateChange = t,
                       !.health = "unhealthy"]
        ELSE b

\* BaseAdapter.getCircuitBreakerStatus
getCircuitBreakerStatus(a) ==
    [ state                |-> a.circuitBreakerState,
      consecutiveFailures  |-> a.consecutiveFailures,
      consecutiveSuccesses |-> a.consecutiveSuccesses,
      totalRequests        |-> a.totalRequests ]

\* ---------------------------------------------------------------- backends
\* The configured backends: two identifiers the schema admits.
ServerA == <<"a">>
ServerB == <<"a", "_">>
ServerIds == {ServerA, ServerB}

\* ServerConfig.transport and ServerConfig.lazyLoad of each
TransportOf(id) == IF id = ServerA THEN "stdio" ELSE "sse"
LazyLoad(id) == FALSE

NameX == <<"x">>
NameUX == <<"_", "x">>

\* What each backend process answers to tools/list, resources/list and
\* prompts/list; its initialize reply advertises the groups it has.
Groups == <<"tools", "resources", "prompts">>

BackendItems(id, group) ==
    IF id = ServerA
    THEN IF group = "tools" THEN <<NameUX, NameX>> ELSE <<>>
    ELSE IF group = "tools" THEN <<NameX>>
         ELSE IF group = "resources" THEN <<NameX>> ELSE <<>>

Advertised(id, group) == BackendItems(id, group) # <<>>

\* --------------------------------------------------------------- JSON-RPC
NoData == [correlationId |-> FALSE, reason |-> "", circuitBreakerStatus |-> ""]

\* A JsonRpcResponse: code 0 stands for a result, any other code for an
\* error object {code, message, data}.
Response(id, code, message, data) ==
    [id |-> id, code |-> code, message |-> message, data |-> data]

\* How a promise settles: resolved with a response, or rejected with an
\* Error whose message is kept.
Resolved(response) == [settled |-> "resolved", response |-> response]
Rejected(message) ==
    [settled |-> "rejected", response |-> Response(0, 0, message, NoData)]

\* The id a client gives its n-th request.
ClientRequestId(n) == 0 - n

NoReply ==
    [cid |-> 0, method |-> "", name |-> <<>>, args |-> "", id |-> 0, code |-> 0,
     message |-> "", data |-> NoData, result |-> <<>>]

\* ------------------------------------------------------------------ world
\* The program state as one value, so that a handler is an operator on it.
World ==
    [registry |-> registry, adapter |-> adapter, backend |-> backend,
     now |-> now, client |-> client]

Commit(w) ==
    /\ registry' = w.registry
    /\ adapter' = w.adapter
    /\ backend' = w.backend
    /\ now' = w.now
    /\ client' = w.client

SetAdapter(w, s, a) == [w EXCEPT !.adapter[s] = a]

Registered(w, s) == \E i \in 1..Len(w.registry) : w.registry[i] = s

\* A request as written to a backend's transport.
Msg(id, method, name, args) ==
    [id |-> id, method |-> method, name |-> name, args |-> args]

RECURSIVE sendRequest(_, _, _, _, _, _), resume(_, _, _, _), fetchNext(_, _, _, _, _)

\* ----------------------------------------------------------------- gateway
\* Gateway.handleToolsCall / handleResourcesRead / handlePromptsGet:
\* return { ...response, id }
replyToClient(w, route, response) ==
    [w EXCEPT !.client.inflight = {r \in @ : r.cid # route.cid},
              !.client.reply =
                  [cid |-> route.cid, method |-> route.method,
                   name |-> route.name, args |-> route.args,
                   id |-> ClientRequestId(route.cid),
                   code |-> response.code, message |-> response.message,
                   data |-> response.data, result |-> <<>>]]

\* ------------------------------------------------------------------ router
CorrelationData == [NoData EXCEPT !.correlationId = TRUE]

\* Router.routeToolCall / routeResourceRead / routePromptGet: the catch block
routeFailed(w, route, message) ==
    replyToClient(w, route, Response(0, CodeServer, message, CorrelationData))

\* The arguments the adapter is given: handleToolsCall passes
\* callParams.arguments || {}, handlePromptsGet passes them as they are,
\* readResource sends none.
ForwardedArgs(route) ==
    IF route.method = "resources/read" THEN "absent"
    ELSE IF route.method = "tools/call" /\ route.args = "absent" THEN "{}"
    ELSE route.args

\* A router that forwards whatever the health of the adapter is.
forwardAnyHealth(w, route) ==
    sendRequest(
        [w EXCEPT !.client.inflight =
             {r \in @ : r.cid # route.cid}
                 \cup {[route EXCEPT !.phase = "forwarded"]}],
        route.serverId, route.method, route.originalName,
        ForwardedArgs(route),
        Awaiter("route", route.cid, 0, "", NoCapabilities))

\* Router.routeToolCall / routeResourceRead / routePromptGet, once
\* getAdapterEnsureStarted has returned the adapter: the health check, then
\* adapter.callTool / readResource / getPrompt.
forward(w, route) ==
    LET a == w.adapter[route.serverId]
    IN  IF a.health # "healthy"
        THEN replyToClient(w, route,
                 Response(0, CodeServer, "Server is not healthy", NoData))
        ELSE sendRequest(
                 [w EXCEPT !.client.inflight =
                      {r \in @ : r.cid # route.cid}
                          \cup {[route EXCEPT !.phase = "forwarded"]}],
                 route.serverId, route.method, route.originalName,
                 ForwardedArgs(route),
                 Awaiter("route", route.cid, 0, "", NoCapabilities))

\* The awaiter of a routed call: the response is returned as it is, a
\* rejection goes to the catch block.
\* A route that answers a backend's error reply with an error of its own.
routeSettledRewriting(w, cid, outcome) ==
    LET routes == {r \in w.client.inflight : r.cid = cid}
    IN  IF routes = {} THEN w
        ELSE LET route == CHOOSE r \in routes : TRUE
             IN  IF outcome.settled = "resolved" /\ outcome.response.code = 0
                 THEN replyToClient(w, route, outcome.response)
                 ELSE routeFailed(w, route, outcome.response.message)

routeSettled(w, cid, outcome) ==
    LET routes == {r \in w.client.inflight : r.cid = cid}
    IN  IF routes = {} THEN w
        ELSE LET route == CHOOSE r \in routes : TRUE
             IN  IF outcome.settled = "resolved"
                 THEN replyToClient(w, route, outcome.response)
                 ELSE routeFailed(w, route, outcome.response.message)

\* ------------------------------------------------------- retry supervisor
\* retryConfig.maxRetries
retryMaxRetries == 3

\* ServerConfig.maxRetries of backend id (the schema admits 0 to 10, default
\* 3): the stdio backend is configured with a single retry. resetRetryState
\* copies the value into retryState.maxRetries, which nothing reads;
\* handleCrash compares with retryConfig.maxRetries.
ConfigMaxRetries(id) == IF id = ServerA THEN retryMaxRetries - 2 ELSE retryMaxRetries

\* BaseAdapter.handleCrash
handleCrash(a) ==
    LET b == [a EXCEPT !.health = "unhealthy"]
    IN  IF b.retryCount >= retryMaxRetries THEN b
        ELSE [b EXCEPT !.retryCount = @ + 1, !.retryTimers = @ + 1]

\* BaseAdapter.resetRetryState
resetRetryState(a) == [a EXCEPT !.retryCount = 0]

\* ------------------------------------------------------------------ start
\* What the caller of start() does when start() returns or throws:
\* Registry.getAdapterEnsureStarted on behalf of a route, BaseAdapter.retryStart,
\* Registry.registerServer (which only logs a failure).
startReturned(w, s, caller, threw, message) ==
    IF caller.kind = "route"
    THEN LET routes == {r \in w.client.inflight : r.cid = caller.cid}
         IN  IF routes = {} THEN w
             ELSE LET route == CHOOSE r \in routes : TRUE
                  IN  IF threw THEN routeFailed(w, route, message)
                      ELSE forward(w, route)
    ELSE IF caller.kind = "retry"
    THEN IF threw THEN SetAdapter(w, s, handleCrash(w.adapter[s]))
         ELSE SetAdapter(w, s, resetRetryState(w.adapter[s]))
    ELSE w

\* StdioAdapter.start / SSEAdapter.start: after the awaited handshake
startSucceeded(w, s) ==
    LET a == w.adapter[s]
        b == [a EXCEPT !.health = "healthy",
                       !.isStarting = FALSE,
                       !.startPc = "idle",
                       !.startCaller = NoAwaiter]
        c == IF a.kind = "stdio" THEN resetRetryState(b) ELSE b
    IN  startReturned(SetAdapter(w, s, c), s, a.startCaller, FALSE, "")

\* StdioAdapter.start / SSEAdapter.start: the catch and finally blocks. The
\* stdio adapter kills the child and drops it; the SSE adapter keeps its
\* EventSource.
startFailed(w, s, message) ==
    LET a == w.adapter[s]
        b == [a EXCEPT !.health = "unhealthy",
                       !.isStarting = FALSE,
                       !.startPc = "idle",
                       !.startCaller = NoAwaiter,
                       !.transport = IF a.kind = "stdio" THEN "none" ELSE @,
                       !.orphans = IF a.kind = "stdio" /\ a.transport = "open"
                                      /\ a.startPc = "handshake"
                                   THEN @ \cup {a.starts} ELSE @]
        v == IF a.kind = "stdio" THEN [w EXCEPT !.backend[s] = {}] ELSE w
    IN  startReturned(SetAdapter(v, s, b), s, a.startCaller, TRUE, message)

\* -------------------------------------------------------------- handshake
\* The start() in progress awaits the initialize() of run number run.
attached(a, run) == a.isStarting /\ a.startPc = "handshake" /\ a.starts = run

\* StdioAdapter.sendRaw needs a live child, SSEAdapter.sendRaw an endpoint.
canSendRaw(a) == IF a.kind = "stdio" THEN isConnected(a) ELSE a.endpoint

\* BaseAdapter.initialize returns: this.capabilities = capabilities
initializeReturned(w, s, run, caps) ==
    LET v == SetAdapter(w, s, [w.adapter[s] EXCEPT !.capabilities = caps])
    IN  IF attached(v.adapter[s], run) THEN startSucceeded(v, s) ELSE v

\* BaseAdapter.initialize throws
initializeThrew(w, s, run, message) ==
    IF attached(w.adapter[s], run) THEN startFailed(w, s, message) ELSE w

\* BaseAdapter.initialize: the list calls, from group number i on; a group
\* the initialize reply does not advertise is skipped.
fetchNext(w, s, run, i, caps) ==
    IF i > Len(Groups) THEN initializeReturned(w, s, run, caps)
    ELSE IF Advertised(s, Groups[i])
    THEN sendRequest(w, s, Groups[i] \o "/list", <<>>, "absent",
                     Awaiter("handshake", 0, run, Groups[i], caps))
    ELSE fetchNext(w, s, run, i + 1, caps)

GroupIndex(group) == CHOOSE i \in 1..Len(Groups) : Groups[i] = group

\* BaseAdapter.initialize: the continuation after each awaited request
handshakeSettled(w, s, aw, outcome) ==
    LET ok == outcome.settled = "resolved" /\ outcome.response.code = 0
    IN  IF aw.phase = "initialize"
        THEN IF outcome.settled = "rejected"
             THEN initializeThrew(w, s, aw.run, outcome.response.message)
             ELSE IF ~ok
             THEN initializeThrew(w, s, aw.run,
                     "Initialize failed: " \o outcome.response.message)
             ELSE IF ~canSendRaw(w.adapter[s])
             THEN initializeThrew(w, s, aw.run, "not connected")
             ELSE fetchNext(w, s, aw.run, 1,
                            [NoCapabilities EXCEPT !.present = TRUE])
        ELSE fetchNext(w, s, aw.run, GroupIndex(aw.phase) + 1,
                       IF ok
                       THEN [aw.caps EXCEPT ![aw.phase] =
                                                BackendItems(s, aw.phase)]
                       ELSE aw.caps)

\* BaseAdapter.initialize: the first request
beginInitialize(w, s, run) ==
    sendRequest(w, s, "initialize", <<>>, "absent",
                Awaiter("handshake", 0, run, "initialize", NoCapabilities))

\* ------------------------------------------------------- request correlation
\* The continuation of whoever awaits a request (the health probe only
\* looks at the outcome).
resume(w, s, aw, outcome) ==
    IF aw.kind = "route" THEN routeSettled(w, aw.cid, outcome)
    ELSE IF aw.kind = "handshake" THEN handshakeSettled(w, s, aw, outcome)
    ELSE w

\* A generator that hands out the same id again.
reuseRequestId(a) == a

\* BaseAdapter.generateRequestId: the adapter after the call; the id returned
\* is the nextRequestId before it.
generateRequestId(a) == [a EXCEPT !.nextRequestId = @ + 1]

CircuitOpenData(a) ==
    [correlationId |-> FALSE,
     reason |-> "Server is experiencing failures, requests rejected to "
                \o "prevent cascading failure",
     circuitBreakerStatus |-> getCircuitBreakerStatus(a).state]

\* BaseAdapter.sendRequest. An open breaker answers at once with an error
\* response (after recording a failure and using up an id). Otherwise the
\* entry is added and sendRaw is called: it writes the message, or throws at
\* once, and then the catch handler removes the entry, records a failure and
\* rejects.
sendRequest(w, s, method, name, args, aw) ==
    LET a0 == w.adapter[s]
        open == isCircuitBreakerOpen(a0, w.now)
        a1 == afterCircuitBreakerCheck(a0, w.now)
    IN  IF open
        THEN LET a2 == recordFailure(a1, w.now)
                 a3 == [generateRequestId(a2) EXCEPT
                           !.settled = @ \cup {a2.nextRequestId}]
             IN  resume(SetAdapter(w, s, a3), s, aw,
                        Resolved(Response(a2.nextRequestId, CodeInternal,
                                          "Circuit breaker is open",
                                          CircuitOpenData(a2))))
        ELSE LET id == a1.nextRequestId
                 entry == [id |-> id, method |-> method, awaiter |-> aw]
                 a2 == [generateRequestId(a1) EXCEPT
                           !.pendingRequests = @ \cup {entry},
                           !.timers = @ \cup {id}]
             IN  IF canSendRaw(a2)
                 THEN [SetAdapter(w, s, a2) EXCEPT
                          !.backend[s] = @ \cup {Msg(id, method, name, args)}]
                 ELSE resume(
                          SetAdapter(w, s,
                              recordFailure(
                                  [a2 EXCEPT !.pendingRequests = @ \ {entry},
                                             !.timers = @ \ {id},
                                             !.settled = @ \cup {id},
                                             !.errorCount = @ + 1],
                                  w.now)),
                          s, aw, Rejected("not connected"))

\* A handleMessage that leaves the deadline timer of the request armed.
handleMessageKeepTimer(w, s, id, code, message, data) ==
    LET a == w.adapter[s]
        entries == {e \in a.pendingRequests : e.id = id}
    IN  IF entries = {} THEN w
        ELSE LET entry == CHOOSE e \in entries : TRUE
                 b == [a EXCEPT !.pendingRequests = @ \ {entry},
                                !.settled = @ \cup {id}]
                 c == IF code # 0
                      THEN recordFailure([b EXCEPT !.errorCount = @ + 1],
                                         w.now)
                      ELSE recordSuccess(b, w.now)
             IN  resume(SetAdapter(w, s, c), s, entry.awaiter,
                        Resolved(Response(id, code, message, data)))

\* BaseAdapter.handleMessage for a message that carries an id
handleMessage(w, s, id, code, message, data) ==
    LET a == w.adapter[s]
        entries == {e \in a.pendingRequests : e.id = id}
    IN  IF entries = {} THEN w
        ELSE LET entry == CHOOSE e \in entries : TRUE
                 b == [a EXCEPT !.pendingRequests = @ \ {entry},
                                !.timers = @ \ {id},
                                !.settled = @ \cup {id}]
                 c == IF code # 0
                      THEN recordFailure([b EXCEPT !.errorCount = @ + 1],
                                         w.now)
                      ELSE recordSuccess(b, w.now)
             IN  resume(SetAdapter(w, s, c), s, entry.awaiter,
                        Resolved(Response(id, code, message, data)))

\* A deadline that rejects the awaiter without counting an error or a failure.
requestTimedOutUncounted(w, s, id) ==
    LET a == w.adapter[s]
        entries == {e \in a.pendingRequests : e.id = id}
        b == [a EXCEPT !.pendingRequests = @ \ entries,
                       !.timers = @ \ {id},
                       !.settled = @ \cup {id}]
        v == SetAdapter(w, s, b)
    IN  IF entries = {} \/ id \in a.settled THEN v
        ELSE resume(v, s, (CHOOSE e \in entries : TRUE).awaiter,
                    Rejected("Request timeout"))

\* BaseAdapter.sendRequest: the deadline timer of request id fires. The
\* reject of a promise that is settled already does nothing.
requestTimedOut(w, s, id) ==
    LET a == w.adapter[s]
        entries == {e \in a.pendingRequests : e.id = id}
        b == recordFailure([a EXCEPT !.pendingRequests = @ \ entries,
                                     !.timers = @ \ {id},
                                     !.settled = @ \cup {id},
                                     !.errorCount = @ + 1], w.now)
        v == SetAdapter(w, s, b)
    IN  IF entries = {} \/ id \in a.settled THEN v
        ELSE resume(v, s, (CHOOSE e \in entries : TRUE).awaiter,
                    Rejected("Request timeout"))

\* BaseAdapter.sendRequest: the catch handler of sendRaw, when the write of
\* request id fails after it was started
sendRawFailed(w, s, id) ==
    LET a == w.adapter[s]
        entries == {e \in a.pendingRequests : e.id = id}
        b == recordFailure([a EXCEPT !.pendingRequests = @ \ entries,
                                     !.timers = @ \ {id},
                                     !.settled = @ \cup {id},
                                     !.errorCount = @ + 1], w.now)
        v == SetAdapter(w, s, b)
    IN  IF entries = {} \/ id \in a.settled THEN v
        ELSE resume(v, s, (CHOOSE e \in entries : TRUE).awaiter,
                    Rejected("write failed"))

\* BaseAdapter.cancelPendingRequests: every entry is rejected and removed;
\* the awaiters then continue in the order of the table (ids ascending).
RECURSIVE rejectAll(_, _, _, _)
rejectAll(w, s, entries, reason) ==
    IF entries = {} THEN w
    ELSE LET first == CHOOSE e \in entries : \A f \in entries : e.id <= f.id
         IN  rejectAll(resume(w, s, first.awaiter, Rejected(reason)),
                       s, entries \ {first}, reason)

\* BaseAdapter.cancelPendingRequests, the loop itself: each entry's timer is
\* cleared, its promise rejected and the entry deleted.
cancelPendingRequests(a) ==
    LET ids == {e.id : e \in a.pendingRequests}
    IN  [a EXCEPT !.pendingRequests = {},
                  !.timers = @ \ ids,
                  !.settled = @ \cup ids]

\* StdioAdapter.spawnProcess: the exit handler; SSEAdapter.connectSSE: the
\* onerror handler when the EventSource is CLOSED.
transportLost(w, s) ==
    LET a == w.adapter[s]
        b == [cancelPendingRequests(a) EXCEPT !.transport = "closed"]
        c == IF a.health = "healthy" THEN handleCrash(b) ELSE b
    IN  rejectAll([SetAdapter(w, s, c) EXCEPT !.backend[s] = {}],
                  s, a.pendingRequests, "transport lost")

\* StdioAdapter.spawnProcess: the exit handler of a child that the adapter no
\* longer references (killed by start()'s catch block or signalled by
\* stop()); the stop() that awaits this exit then resolves.
orphanExited(w, s, run) ==
    LET a == w.adapter[s]
        b == [cancelPendingRequests(a) EXCEPT
                 !.orphans = @ \ {run},
                 !.stopping = IF @ = run THEN 0 ELSE @]
        c == IF a.health = "healthy" THEN handleCrash(b) ELSE b
    IN  rejectAll(SetAdapter(w, s, c), s, a.pendingRequests, "Process exited")

\* StdioAdapter.stop / SSEAdapter.stop. Both return at once when there is no
\* process / EventSource. The stdio adapter signals the child, drops its
\* reference and waits for the exit (or, for a child that has exited already,
\* for its five-second timer); the SSE adapter closes the stream.
stop(w, s) ==
    LET a == w.adapter[s]
        b == [cancelPendingRequests(a) EXCEPT
                 !.health = "stopped",
                 !.transport = "none",
                 !.endpoint = IF a.kind = "sse" THEN FALSE ELSE @,
                 !.orphans = IF a.kind = "stdio" /\ a.transport = "open"
                             THEN @ \cup {a.starts} ELSE @,
                 !.stopping = IF a.kind = "stdio" THEN a.starts ELSE @]
    IN  IF a.transport = "none" THEN w
        ELSE rejectAll([SetAdapter(w, s, b) EXCEPT !.backend[s] = {}],
                       s, a.pendingRequests, "Adapter stopped")

\* StdioAdapter.stop: the five-second timer fires; a child the adapter
\* references by then is killed (its exit follows), and stop() resolves.
stopTimedOut(w, s) ==
    LET a == w.adapter[s]
        v == SetAdapter(w, s, [a EXCEPT !.stopping = 0])
        k == SetAdapter(w, s, [a EXCEPT !.stopping = 0,
                                        !.sigkill = @ \cup {a.starts}])
    IN  IF isConnected(a) THEN transportLost(k, s) ELSE v

\* StdioAdapter.start / SSEAdapter.start, called by caller: it returns at once
\* when a start is in progress or the transport is connected; otherwise it
\* spawns the child (connected from then on) or opens the event stream.
start(w, s, caller) ==
    LET a == w.adapter[s]
    IN  IF a.isStarting \/ isConnected(a)
        THEN startReturned(w, s, caller, FALSE, "")
        ELSE SetAdapter(w, s,
                 [a EXCEPT !.isStarting = TRUE,
                           !.health = "starting",
                           !.starts = @ + 1,
                           !.startPc = "connect",
                           !.startCaller = caller,
                           !.transport = IF a.kind = "stdio" THEN "open"
                                         ELSE "connecting"])

\* StdioAdapter.spawnProcess resolves (the spawn event) / SSEAdapter.connectSSE
\* resolves (the endpoint event); start() goes on with initialize().
connected(w, s) ==
    LET a == w.adapter[s]
        b == [a EXCEPT !.startPc = "handshake",
                       !.transport = IF a.kind = "sse" THEN "open" ELSE @,
                       !.endpoint = IF a.kind = "sse" THEN TRUE ELSE @]
    IN  beginInitialize(SetAdapter(w, s, b), s, a.starts)

\* ---------------------------------------------------------------- registry
\* A registerServer without the check for a registered id.
registerServerUnchecked(w, s) ==
    LET v == [w EXCEPT !.registry = Append(@, s),
                       !.adapter[s] = NewAdapter(TransportOf(s), w.now),
                       !.backend[s] = {}]
    IN  IF ~LazyLoad(s)
        THEN start(v, s, Awaiter("register", 0, 0, "", NoCapabilities))
        ELSE v

\* The error registerServer throws to its caller for a registered id.
AlreadyRegistered(s) ==
    [NoReply EXCEPT !.method = "registerServer", !.name = s,
                    !.message = "already registered"]

\* Registry.registerServer
registerServer(w, s) ==
    LET v == [w EXCEPT !.registry = Append(@, s),
                       !.adapter[s] = NewAdapter(TransportOf(s), w.now),
                       !.backend[s] = {}]
    IN  IF Registered(w, s)
        THEN [w EXCEPT !.client.reply = AlreadyRegistered(s)]
        ELSE IF ~LazyLoad(s)
        THEN start(v, s, Awaiter("register", 0, 0, "", NoCapabilities))
        ELSE v

\* Registry.registerServer for a configuration with enabled = false: the
\* adapter is created and put in the map, and not started.
registerServerDisabled(w, s) ==
    IF Registered(w, s)
    THEN [w EXCEPT !.client.reply = AlreadyRegistered(s)]
    ELSE [w EXCEPT !.registry = Append(@, s),
                   !.adapter[s] = NewAdapter(TransportOf(s), w.now),
                   !.backend[s] = {}]

\* config.servers, in the order of the configuration file
ConfiguredServers == <<ServerA, ServerB>>

\* Registry.registerServers: every registerServer runs up to its first await
\* before the next one is called.
RECURSIVE registerServersFrom(_, _)
registerServersFrom(w, i) ==
    IF i > Len(ConfiguredServers) THEN w
    ELSE registerServersFrom(registerServer(w, ConfiguredServers[i]), i + 1)

registerServers(w) == registerServersFrom(w, 1)

\* Registry.unregisterServer after its adapter.stop() has returned:
\* this.adapters.delete(serverId)
deleteAdapter(w, s) ==
    LET Others(x) == x # s
    IN  [w EXCEPT !.registry = SelectSeq(@, Others)]

\* Registry.getAdapterEnsureStarted on behalf of a routed call, and the
\* route's use of what it returns
getAdapterEnsureStarted(w, route) ==
    IF ~Registered(w, route.serverId)
    THEN routeFailed(w, route, "Server not found")
    ELSE IF ~isConnected(w.adapter[route.serverId])
    THEN start(w, route.serverId,
               Awaiter("route", route.cid, 0, "", NoCapabilities))
    ELSE forward(w, route)

\* A merger that walks the adapters from the last one registered.
RECURSIVE mergeFromBackwards(_, _, _)
mergeFromBackwards(w, i, group) ==
    IF i > Len(w.registry) THEN <<>>
    ELSE LET serverId == w.registry[i]
             a == w.adapter[serverId]
             items == a.capabilities[group]
             mine == IF a.health # "healthy" THEN <<>>
                     ELSE IF ~a.capabilities.present THEN <<>>
                     ELSE [j \in 1..Len(items) |->
                              [serverId |-> serverId, item |-> items[j]]]
         IN  mergeFromBackwards(w, i + 1, group) \o mine

\* A merger that takes the items of every adapter that has cached some.
RECURSIVE mergeFromAnyHealth(_, _, _)
mergeFromAnyHealth(w, i, group) ==
    IF i > Len(w.registry) THEN <<>>
    ELSE LET serverId == w.registry[i]
             a == w.adapter[serverId]
             items == a.capabilities[group]
             mine == IF ~a.capabilities.present THEN <<>>
                     ELSE [j \in 1..Len(items) |->
                              [serverId |-> serverId, item |-> items[j]]]
         IN  mine \o mergeFromAnyHealth(w, i + 1, group)

\* Registry.getMergedCapabilities: one group of the result
RECURSIVE mergeFrom(_, _, _)
mergeFrom(w, i, group) ==
    IF i > Len(w.registry) THEN <<>>
    ELSE LET serverId == w.registry[i]
             a == w.adapter[serverId]
             items == a.capabilities[group]
             mine == IF a.health # "healthy" THEN <<>>
                     ELSE IF ~a.capabilities.present THEN <<>>
                     ELSE [j \in 1..Len(items) |->
                              [serverId |-> serverId, item |-> items[j]]]
         IN  mine \o mergeFrom(w, i + 1, group)

getMergedCapabilities(w) ==
    [tools |-> mergeFrom(w, 1, "tools"),
     resources |-> mergeFrom(w, 1, "resources"),
     prompts |-> mergeFrom(w, 1, "prompts")]

\* ------------------------------------------------------- router: resources
SchemeSeparator == <<":", "/", "/">>

\* Router.createNamespacedUri
createNamespacedUri(serverId, uri) == serverId \o SchemeSeparator \o uri

\* The longest prefix of str that /[a-zA-Z][a-zA-Z0-9_-]*/ matches (0: none).
IdPrefixLength(str) ==
    IF str = <<>> \/ str[1] \notin Letters THEN 0
    ELSE CHOOSE k \in 1..Len(str) :
            /\ \A i \in 2..k : str[i] \in IdChars
            /\ k < Len(str) => str[k + 1] \notin IdChars

\* Router.parseNamespacedUri: /^([a-zA-Z][a-zA-Z0-9_-]*):\/\/(.+)$/. The
\* first group cannot contain ':', so it is the longest identifier prefix;
\* the second group runs to the end of the string, and '.' matches no line
\* terminator.
parseNamespacedUri(namespacedUri) ==
    LET k == IdPrefixLength(namespacedUri)
        n == Len(SchemeSeparator)
    IN  IF /\ k >= 1
           /\ Len(namespacedUri) > k + n
           /\ Substring(namespacedUri, k, k + n) = SchemeSeparator
           /\ \A i \in k + n + 1..Len(namespacedUri) :
                  namespacedUri[i] \notin LineTerminators
        THEN [serverId |-> Substring(namespacedUri, 0, k),
              originalName |-> Substring(namespacedUri, k + n,
                                         Len(namespacedUri))]
        ELSE NullName

\* Router.getNamespacedTools / getNamespacedResources / getNamespacedPrompts
getNamespaced(w, group) ==
    LET merged == getMergedCapabilities(w)[group]
    IN  [j \in 1..Len(merged) |->
            [name |-> IF group = "resources"
                      THEN createNamespacedUri(merged[j].serverId, merged[j].item)
                      ELSE createNamespacedName(merged[j].serverId, merged[j].item),
             serverId |-> merged[j].serverId,
             originalName |-> merged[j].item]]

\* ------------------------------------------------------- gateway: handlers
\* Gateway.handleToolsList / handleResourcesList / handlePromptsList: the
\* internal fields are stripped.
handleList(w, group) ==
    LET items == getNamespaced(w, group)
        cid == w.client.nextId
    IN  [w EXCEPT !.client.nextId = @ + 1,
                  !.client.reply =
                      [NoReply EXCEPT !.cid = cid,
                                      !.method = group \o "/list",
                                      !.id = ClientRequestId(cid),
                                      !.result = [j \in 1..Len(items) |->
                                                     items[j].name]]]

\* Router.routeToolCall / routeResourceRead / routePromptGet up to the
\* registry lookup
route(w, r) ==
    LET parsed == IF r.method = "resources/read"
                  THEN parseNamespacedUri(r.name)
                  ELSE parseNamespacedName(r.name)
    IN  IF parsed = NullName
        THEN replyToClient(w, r,
                 Response(0, CodeInvalidParams, "Invalid name format", NoData))
        ELSE LET found == [r EXCEPT !.serverId = parsed.serverId,
                                    !.originalName = parsed.originalName]
             IN  getAdapterEnsureStarted(
                     [w EXCEPT !.client.inflight = (@ \ {r}) \cup {found}],
                     found)

\* The args of a request that has no params member at all.
NoParams == "no params"

\* Gateway.handleRequest around handleToolsCall / handleResourcesRead /
\* handlePromptsGet for the client's next request: reading name or uri off
\* params that are undefined throws a TypeError, which handleRequest catches.
handleCall(w, method, name, args) ==
    LET cid == w.client.nextId
        r == [cid |-> cid, method |-> method, name |-> name, args |-> args,
              serverId |-> <<>>, originalName |-> <<>>, phase |-> "starting"]
        v == [w EXCEPT !.client.nextId = @ + 1,
                       !.client.inflight = @ \cup {r}]
    IN  IF args = NoParams
        THEN replyToClient(v, r,
                 Response(0, CodeInternal,
                          "Cannot read properties of undefined",
                          CorrelationData))
        ELSE IF name = <<>>
        THEN replyToClient(v, r,
                 Response(0, CodeInvalidParams, "Missing required parameter",
                          NoData))
        ELSE route(v, r)

\* -------------------------------------------------------------- environment
\* What a backend answers with: a result (0) or an error of its own.
BackendCodes == {0, -32001}

\* The error object of the backend's reply with the given code (0: a result).
BackendError(code) ==
    IF code = 0 THEN [message |-> "", data |-> NoData]
    ELSE [message |-> "nope", data |-> [NoData EXCEPT !.reason = "backend"]]

\* StdioAdapter.spawnProcess rejects (error event, spawn timeout) /
\* SSEAdapter.connectSSE rejects (connection error or its timeout, which
\* closes the EventSource)
connectFailed(w, s) ==
    LET a == w.adapter[s]
        b == [a EXCEPT !.transport = IF a.kind = "sse" THEN "closed" ELSE @]
    IN  startFailed(SetAdapter(w, s, b), s, "connection failed")

\* StdioAdapter.start: the initialization timer wins the race against
\* initialize()
initTimedOut(w, s) == startFailed(w, s, "Initialization timeout")

\* BaseAdapter.handleCrash: the retry timer fires and calls retryStart
retryTimerFired(w, s) ==
    start(SetAdapter(w, s, [w.adapter[s] EXCEPT !.retryTimers = @ - 1]), s,
          Awaiter("retry", 0, 0, "", NoCapabilities))

\* Registry.performHealthChecks for one connected adapter: the ping
probe(w, s) ==
    sendRequest(w, s, "ping", <<>>, "absent",
                Awaiter("probe", 0, 0, "", NoCapabilities))

\* ------------------------------------------------------------------ actions
RegisterServer(s) ==
    /\ Commit(registerServer(World, s))
    /\ UNCHANGED <<ns, front>>

StartConnected(s) ==
    /\ Registered(World, s)
    /\ adapter[s].isStarting /\ adapter[s].startPc = "connect"
    /\ Commit(connected(World, s))
    /\ UNCHANGED <<ns, front>>

\* SSEAdapter.connectSSE: onopen. The stream is open (readyState OPEN), the
\* connection timer is cleared, the endpoint event has not come.
StreamOpens(s) ==
    /\ Registered(World, s)
    /\ adapter[s].kind = "sse"
    /\ adapter[s].isStarting /\ adapter[s].startPc = "connect"
    /\ adapter[s].transport = "connecting"
    /\ Commit(SetAdapter(World, s, [adapter[s] EXCEPT !.transport = "open"]))
    /\ UNCHANGED <<ns, front>>

\* StdioAdapter.spawnProcess: the spawn timer fires before the spawn event;
\* SSEAdapter.connectSSE: the connection timer fires before onopen.
ConnectTimeout(s) ==
    /\ Registered(World, s)
    /\ adapter[s].isStarting /\ adapter[s].startPc = "connect"
    /\ ~(adapter[s].kind = "sse" /\ adapter[s].transport = "open")
    /\ Commit(connectFailed(World, s))
    /\ UNCHANGED <<ns, front>>

ConnectFailed(s) ==
    /\ Registered(World, s)
    /\ adapter[s].isStarting /\ adapter[s].startPc = "connect"
    /\ Commit(connectFailed(World, s))
    /\ UNCHANGED <<ns, front>>

\* The backend answers a request it has read: a result, or an error.
BackendReply(s, code) ==
    /\ Registered(World, s)
    /\ adapter[s].transport = "open"
    /\ \E m \in backend[s] :
          Commit(handleMessage([World EXCEPT !.backend[s] = @ \ {m}], s, m.id,
                               code, BackendError(code).message,
                               BackendError(code).data))
    /\ UNCHANGED <<ns, front>>

\* The initialize() of the stdio start() in progress awaits a request of
\* the given phases.
HandshakeAwaits(a, phases) ==
    \E e \in a.pendingRequests :
        /\ e.awaiter.kind = "handshake"
        /\ attached(a, e.awaiter.run)
        /\ e.awaiter.phase \in phases

\* The deadline timer of request id can be the next timer to fire. start()
\* arms its initialization timer, of the same duration, after the initialize
\* request and before any list request of the handshake: a list request
\* awaited by a stdio start() in progress cannot time out first.
TimerMayFire(a, id) ==
    ~ /\ a.kind = "stdio"
      /\ \E e \in a.pendingRequests :
             /\ e.id = id
             /\ e.awaiter.kind = "handshake"
             /\ attached(a, e.awaiter.run)
             /\ e.awaiter.phase # "initialize"

RequestTimeout(s) ==
    /\ Registered(World, s)
    /\ \E id \in adapter[s].timers :
          /\ TimerMayFire(adapter[s], id)
          /\ Commit(requestTimedOut(World, s, id))
    /\ UNCHANGED <<ns, front>>

\* The initialization timer of a stdio start() fires while initialize() is
\* past its first request.
InitTimeout(s) ==
    /\ Registered(World, s)
    /\ adapter[s].kind = "stdio"
    /\ adapter[s].isStarting /\ adapter[s].startPc = "handshake"
    /\ ~HandshakeAwaits(adapter[s], {"initialize"})
    /\ Commit(initTimedOut(World, s))
    /\ UNCHANGED <<ns, front>>

\* The exit of a child that the adapter no longer references.
OrphanExit(s) ==
    /\ Registered(World, s)
    /\ \E run \in adapter[s].orphans : Commit(orphanExited(World, s, run))
    /\ UNCHANGED <<ns, front>>

\* adapter.stop(), as the admin restart route, unregisterServer and shutdown
\* call it.
Stop(s) ==
    /\ Registered(World, s)
    /\ Commit(stop(World, s))
    /\ UNCHANGED <<ns, front>>

\* The timer of a stop() whose child had exited before fires.
StopTimeout(s) ==
    /\ Registered(World, s)
    /\ adapter[s].stopping # 0
    /\ adapter[s].stopping \notin adapter[s].orphans
    /\ Commit(stopTimedOut(World, s))
    /\ UNCHANGED <<ns, front>>

RegisterServerDisabled(s) ==
    /\ Commit(registerServerDisabled(World, s))
    /\ UNCHANGED <<ns, front>>

\* Gateway.initialize: registry.registerServers(config.servers)
RegisterServers ==
    /\ registry = <<>>
    /\ Commit(registerServers(World))
    /\ UNCHANGED <<ns, front>>

\* Registry.unregisterServer up to the return of adapter.stop(), and past it
\* when stop() has nothing to wait for.
UnregisterServer(s) ==
    /\ Registered(World, s)
    /\ adapter[s].stopping = 0
    /\ LET v == stop(World, s)
       IN  Commit(IF v.adapter[s].stopping = 0 THEN deleteAdapter(v, s) ELSE v)
    /\ UNCHANGED <<ns, front>>

\* The stop() that unregisterServer awaits returns, on the exit of the child
\* or on its timer, and unregisterServer deletes the adapter.
UnregisterStopped(s) ==
    /\ Registered(World, s)
    /\ adapter[s].stopping # 0
    /\ \/ /\ adapter[s].stopping \in adapter[s].orphans
          /\ Commit(deleteAdapter(orphanExited(World, s, adapter[s].stopping), s))
       \/ Commit(deleteAdapter(stopTimedOut(World, s), s))
    /\ UNCHANGED <<ns, front>>

\* The timer of a stop() fires while the child it signalled has not exited.
StopEscalates(s) ==
    /\ Registered(World, s)
    /\ adapter[s].stopping # 0
    /\ adapter[s].stopping \in adapter[s].orphans
    /\ Commit(stopTimedOut(World, s))
    /\ UNCHANGED <<ns, front>>

\* The write of a request fails after sendRaw started it.
SendRawFailed(s) ==
    /\ Registered(World, s)
    /\ \E m \in backend[s] :
          Commit(sendRawFailed([World EXCEPT !.backend[s] = @ \ {m}], s, m.id))
    /\ UNCHANGED <<ns, front>>

\* The child exits / the event stream closes.
TransportLost(s) ==
    /\ Registered(World, s)
    /\ adapter[s].transport = "open"
    /\ Commit(transportLost(World, s))
    /\ UNCHANGED <<ns, front>>

RetryTimerFires(s) ==
    /\ Registered(World, s)
    /\ adapter[s].retryTimers > 0
    /\ Commit(retryTimerFired(World, s))
    /\ UNCHANGED <<ns, front>>

Probe(s) ==
    /\ Registered(World, s)
    /\ adapter[s].health # "stopped"
    /\ isConnected(adapter[s])
    /\ Commit(probe(World, s))
    /\ UNCHANGED <<ns, front>>

RouteCall(method, name, args) ==
    /\ Commit(handleCall(World, method, name, args))
    /\ UNCHANGED <<ns, front>>

ListItems(group) ==
    /\ Commit(handleList(World, group))
    /\ UNCHANGED <<ns, front>>

TickMs == circuitTimeout \div 2

Tick ==
    /\ now' = now + TickMs
    /\ UNCHANGED <<ns, registry, adapter, backend, client, front>>

\* ------------------------------------------------- namespacing as functions
\* Two (backend id, item name) pairs go through createNamespacedName and
\* parseNamespacedName.
NoPair == [serverId |-> <<>>, name |-> <<>>]

NsIdle ==
    [pc |-> "idle", a |-> NoPair, b |-> NoPair, nameA |-> <<>>, nameB |-> <<>>,
     parsedA |-> NullName, parsedB |-> NullName]

AdmittedIds == {s \in Strings(IdChars, MaxIdLen) : ServerIdAdmitted(s)}
ItemNames == Strings(NameChars, MaxNameLen)
Pairs == {[serverId |-> s, name |-> n] : s \in AdmittedIds, n \in ItemNames}

CreateNames ==
    /\ ns.pc = "input"
    /\ ns' = [ns EXCEPT !.pc = "created",
                        !.nameA = createNamespacedName(ns.a.serverId, ns.a.name),
                        !.nameB = createNamespacedName(ns.b.serverId, ns.b.name)]
    /\ UNCHANGED <<registry, adapter, backend, now, client, front>>

ParseNames ==
    /\ ns.pc = "created"
    /\ ns' = [ns EXCEPT !.pc = "parsed",
                        !.parsedA = parseNamespacedName(ns.nameA),
                        !.parsedB = parseNamespacedName(ns.nameB)]
    /\ UNCHANGED <<registry, adapter, backend, now, client, front>>

\* A (backend id, original URI) pair goes through createNamespacedUri and
\* parseNamespacedUri; a string handed in as it is goes through either parser.
OriginalUris == Strings(UriChars, MaxUriLen)
UriPairs == {[serverId |-> s, name |-> u] : s \in AdmittedIds, u \in OriginalUris}
RawStrings == Strings(RawChars, MaxRawLen)

CreateUris ==
    /\ ns.pc = "input"
    /\ ns' = [ns EXCEPT !.pc = "created",
                        !.nameA = createNamespacedUri(ns.a.serverId, ns.a.name)]
    /\ UNCHANGED <<registry, adapter, backend, now, client, front>>

ParseUris ==
    /\ ns.pc = "created"
    /\ ns' = [ns EXCEPT !.pc = "parsedUri",
                        !.parsedA = parseNamespacedUri(ns.nameA)]
    /\ UNCHANGED <<registry, adapter, backend, now, client, front>>

\* --------------------------------------------------------- specifications
\* ------------------------------------------------- sessions and streams
\* settings.sessionTimeout (the least value the schema admits) and the cap of
\* the sweep interval, in milliseconds
sessionTimeout == 60000
cleanupCap == 60000

\* Gateway.startSessionCleanup: cleanupInterval
sweepInterval ==
    IF sessionTimeout \div 2 < cleanupCap THEN sessionTimeout \div 2
    ELSE cleanupCap

\* The clients of the gateway's HTTP front.
Clients == {"c1", "c2"}

\* The front after Gateway.initialize: no session, no stream, the sweep
\* timer armed at time 0.
\*   sessions:  Gateway.sessions (id, lastActivity)
\*   streams:   sseConnections with, for each reply object, the client that
\*              reads it, reply.raw.writable and whether pingInterval is set
\*   posts:     POST /message requests whose handleRequest has not returned
\*   responses: the HTTP responses sent (request, client)
\*   events:    the message events written (stream, reading client, request)
NoFront ==
    [sessions |-> {}, streams |-> {}, nextSession |-> 1,
     posts |-> {}, nextPost |-> 1, responses |-> {}, events |-> {},
     lastSweep |-> 0]

\* A sweep that also evicts a session whose age equals the timeout.
cleanupAtTimeout(f, t) ==
    [f EXCEPT !.sessions = {x \in @ : ~(t - x.lastActivity >= sessionTimeout)}]

\* Gateway.cleanupStaleSessions
cleanupStaleSessions(f, t) ==
    [f EXCEPT !.sessions = {x \in @ : ~(t - x.lastActivity > sessionTimeout)}]

\* Gateway.touchSession
touchSession(f, sid, t) ==
    [f EXCEPT !.sessions =
        {IF x.id = sid THEN [x EXCEPT !.lastActivity = t] ELSE x : x \in @}]

\* A delivery that writes the reply on every writable stream.
writeToAll(f, p) ==
    [f EXCEPT !.events = @ \cup {[sid |-> s.id, to |-> s.client, rid |-> p.rid] :
                                    s \in {x \in f.streams : x.writable}}]

\* POST /message after handleRequest returned: the write on the stream of the
\* request's session, if sseConnections has it and it is writable.
writeToStream(f, p) ==
    [f EXCEPT !.events = @ \cup {[sid |-> s.id, to |-> s.client, rid |-> p.rid] :
                                    s \in {x \in f.streams :
                                              /\ p.sid # 0
                                              /\ x.id = p.sid
                                              /\ x.writable}}]

\* GET /sse by client c: createSession, sseConnections.set, the endpoint
\* event, setInterval of the heartbeat.
GetSse(c) ==
    /\ front' = [front EXCEPT
                    !.sessions = @ \cup {[id |-> front.nextSession,
                                          lastActivity |-> now]},
                    !.streams = @ \cup {[id |-> front.nextSession,
                                         client |-> c,
                                         writable |-> TRUE,
                                         pinging |-> TRUE]},
                    !.nextSession = @ + 1]
    /\ UNCHANGED <<ns, registry, adapter, backend, now, client>>

\* POST /message by client c with x-session-id sid (0: no header), one of the
\* ids its endpoint events announced: handleRequest touches the session and
\* awaits routeMethod.
PostMessage(c, sid) ==
    /\ sid = 0 \/ \E s \in front.streams : s.id = sid /\ s.client = c
    /\ front' = [touchSession(front, sid, now) EXCEPT
                    !.posts = @ \cup {[rid |-> front.nextPost, sid |-> sid,
                                       by |-> c]},
                    !.nextPost = @ + 1]
    /\ UNCHANGED <<ns, registry, adapter, backend, now, client>>

\* handleRequest returns to POST /message: the write on the stream, then
\* reply.send(response).
PostReturns ==
    /\ \E p \in front.posts :
          front' = [writeToStream(front, p) EXCEPT
                       !.posts = @ \ {p},
                       !.responses = @ \cup {[rid |-> p.rid, to |-> p.by]}]
    /\ UNCHANGED <<ns, registry, adapter, backend, now, client>>

\* The stream of a session stops being writable.
StreamBreaks ==
    /\ \E s \in front.streams :
          /\ s.writable
          /\ front' = [front EXCEPT
                          !.streams = (@ \ {s})
                                        \cup {[s EXCEPT !.writable = FALSE]}]
    /\ UNCHANGED <<ns, registry, adapter, backend, now, client>>

\* GET /sse: the pingInterval callback of a stream.
Heartbeat ==
    /\ \E s \in front.streams :
          /\ s.pinging
          /\ front' = IF s.writable THEN front
                      ELSE [front EXCEPT
                               !.streams = (@ \ {s})
                                  \cup {[s EXCEPT !.pinging = FALSE]}]
    /\ UNCHANGED <<ns, registry, adapter, backend, now, client>>

\* GET /sse: the close handler of the request: clearInterval,
\* sseConnections.delete, Gateway.removeSession.
StreamCloses ==
    /\ \E s \in front.streams :
          front' = [front EXCEPT
                       !.streams = @ \ {s},
                       !.sessions = {x \in @ : x.id # s.id}]
    /\ UNCHANGED <<ns, registry, adapter, backend, now, client>>

\* Gateway.startSessionCleanup: the interval callback.
Sweep ==
    /\ now - front.lastSweep >= sweepInterval
    /\ front' = [cleanupStaleSessions(front, now) EXCEPT !.lastSweep = now]
    /\ UNCHANGED <<ns, registry, adapter, backend, now, client>>

\* The gateway after construction: nothing registered, no request handled.
InitGateway ==
    /\ registry = <<>>
    /\ adapter = [s \in ServerIds |-> NewAdapter(TransportOf(s), 0)]
    /\ backend = [s \in ServerIds |-> {}]
    /\ now = 0
    /\ client = [nextId |-> 1, inflight |-> {}, reply |-> NoReply]
    /\ front = NoFront

Init ==
    /\ ns = NsIdle
    /\ InitGateway

InitNames ==
    /\ ns \in {[NsIdle EXCEPT !.pc = "input", !.a = p, !.b = q] :
                  p \in Pairs, q \in Pairs}
    /\ InitGateway

\* What a client asks for.
CallMethods == {"tools/call", "resources/read", "prompts/get"}

Call(method, name, args) == [method |-> method, name |-> name, args |-> args]

Calls ==
    {Call("tools/call", createNamespacedName(ServerA, NameX), "given"),
     Call("tools/call", createNamespacedName(ServerB, NameX), "given"),
     Call("tools/call", NameX, "absent"),
     Call("tools/call", <<>>, "absent"),
     Call("resources/read", createNamespacedUri(ServerB, NameX), "absent"),
     Call("prompts/get", createNamespacedName(ServerA, NameX), "given")}

\* The backend id the router parses out of the call's name.
ParsedServer(c) ==
    IF c.method = "resources/read" THEN parseNamespacedUri(c.name).serverId
    ELSE parseNamespacedName(c.name).serverId

\* The start() runs begun so far.
StartsUsed == adapter[ServerA].starts + adapter[ServerB].starts

\* Whether routing the call would begin a start() run.
WouldStart(c) ==
    LET parsed == IF c.method = "resources/read"
                  THEN parseNamespacedUri(c.name)
                  ELSE parseNamespacedName(c.name)
        s == parsed.serverId
    IN  /\ parsed # NullName
        /\ Registered(World, s)
        /\ ~isConnected(adapter[s])
        /\ ~adapter[s].isStarting

Next ==
    \/ \E s \in ServerIds : ~Registered(World, s) /\ RegisterServer(s)
    \/ \E s \in ServerIds : StartConnected(s)
    \/ \E s \in ServerIds : ConnectFailed(s)
    \/ \E s \in ServerIds, code \in BackendCodes : BackendReply(s, code)
    \/ \E s \in ServerIds : TransportLost(s)
    \/ \E c \in Calls :
          /\ client.nextId <= MaxClientRequests
          /\ WouldStart(c) => StartsUsed < MaxStarts
          /\ RouteCall(c.method, c.name, c.args)
    \/ \E i \in 1..Len(Groups) :
          client.nextId <= MaxClientRequests /\ ListItems(Groups[i])

Spec == Init /\ [][Next]_vars

NextNames == CreateNames \/ ParseNames

SpecNames == InitNames /\ [][NextNames]_vars

\* The child-process adapter under stop(), its timer, the exits of its
\* children, the retry timers its crashes schedule and the routed calls that
\* start it again.
NextStop ==
    \/ ~Registered(World, ServerA) /\ RegisterServer(ServerA)
    \/ StartConnected(ServerA)
    \/ BackendReply(ServerA, 0)
    \/ Stop(ServerA)
    \/ StopTimeout(ServerA)
    \/ StopEscalates(ServerA)
    \/ OrphanExit(ServerA)
    \/ TransportLost(ServerA)
    \/ adapter[ServerA].starts < MaxStopStarts /\ RetryTimerFires(ServerA)
    \/ /\ client.nextId <= MaxStopCalls
       /\ adapter[ServerA].starts < MaxStopStarts
       /\ RouteCall("tools/call", createNamespacedName(ServerA, NameX), "given")

SpecStop == Init /\ [][NextStop]_vars

\* The gateway with both backends configured with enabled = false, under
\* client calls to them.
DisabledCalls ==
    {Call("tools/call", createNamespacedName(ServerA, NameX), "given"),
     Call("resources/read", createNamespacedUri(ServerB, NameX), "absent"),
     Call("prompts/get", createNamespacedName(ServerA, NameX), "given")}

NextDisabled ==
    \/ \E s \in ServerIds : ~Registered(World, s) /\ RegisterServerDisabled(s)
    \/ \E s \in ServerIds : StartConnected(s)
    \/ \E s \in ServerIds : BackendReply(s, 0)
    \/ \E c \in DisabledCalls :
          /\ client.nextId <= MaxDisabledCalls
          /\ RouteCall(c.method, c.name, c.args)

SpecDisabled == Init /\ [][NextDisabled]_vars

\* The start() runs of both adapters against backends that answer or stay
\* silent; the timers fire when they are due.
NextStart ==
    \/ \E s \in ServerIds : ~Registered(World, s) /\ RegisterServer(s)
    \/ \E s \in ServerIds : StreamOpens(s)
    \/ \E s \in ServerIds : StartConnected(s)
    \/ \E s \in ServerIds : ConnectTimeout(s)
    \/ \E s \in ServerIds, code \in BackendCodes : BackendReply(s, code)
    \/ \E s \in ServerIds : RequestTimeout(s)
    \/ \E s \in ServerIds : InitTimeout(s)

SpecStart ==
    /\ Init
    /\ [][NextStart]_vars
    /\ \A s \in ServerIds :
          /\ WF_vars(ConnectTimeout(s))
          /\ WF_vars(RequestTimeout(s))
          /\ WF_vars(InitTimeout(s))

\* Requests that lack the name or the uri, with params and without, and one
\* that has it.
ParamCalls ==
    {Call(m, <<>>, a) : m \in CallMethods, a \in {"absent", NoParams}}
        \cup {Call("tools/call", createNamespacedName(ServerA, NameX), "given")}

\* The gateway under client requests with and without their parameters.
NextParams ==
    \/ RegisterServers
    \/ \E s \in ServerIds : StartConnected(s)
    \/ \E s \in ServerIds : BackendReply(s, 0)
    \/ \E c \in ParamCalls :
          /\ client.nextId <= MaxParamCalls
          /\ WouldStart(c) => StartsUsed < MaxStarts
          /\ RouteCall(c.method, c.name, c.args)

SpecParams == Init /\ [][NextParams]_vars

\* The registry under the registration of the configured backends, the admin
\* routes that unregister and register one, the handshakes, and a client's
\* calls to the child-process backend.
NextMerge ==
    \/ RegisterServers
    \/ \E s \in ServerIds :
          registry # <<>> /\ ~Registered(World, s) /\ RegisterServer(s)
    \/ \E s \in ServerIds : UnregisterServer(s)
    \/ \E s \in ServerIds : UnregisterStopped(s)
    \/ \E s \in ServerIds : StartConnected(s)
    \/ \E s \in ServerIds : BackendReply(s, 0)
    \/ /\ client.nextId <= MaxClientRequests
       /\ RouteCall("tools/call", createNamespacedName(ServerA, NameX), "given")

SpecMerge == Init /\ [][NextMerge]_vars

\* createNamespacedUri and parseNamespacedUri over admitted ids and original
\* URIs.
InitUris ==
    /\ ns \in {[NsIdle EXCEPT !.pc = "input", !.a = p] : p \in UriPairs}
    /\ InitGateway

NextUris == CreateUris \/ ParseUris

SpecUris == InitUris /\ [][NextUris]_vars

\* Both parsers over strings that no encoder made.
InitParse ==
    /\ ns \in {[NsIdle EXCEPT !.pc = "created", !.nameA = str] :
                  str \in RawStrings}
    /\ InitGateway

NextParse == ParseNames \/ ParseUris

SpecParse == InitParse /\ [][NextParse]_vars

\* The breaker of one backend under health probes, replies, timeouts, failed
\* writes, a lost transport and the clock.
\* Request ids are left, and fewer than MaxInFlight requests are awaited by
\* the adapter or unanswered by the backend.
BreakerBudget ==
    /\ adapter[ServerA].nextRequestId <= MaxBreakerRequestId
    /\ Cardinality(adapter[ServerA].pendingRequests) < MaxInFlight
    /\ Cardinality(backend[ServerA]) < MaxInFlight

NextBreaker ==
    \/ ~Registered(World, ServerA) /\ RegisterServer(ServerA)
    \/ StartConnected(ServerA)
    \/ \E code \in BackendCodes : BackendReply(ServerA, code)
    \/ RequestTimeout(ServerA)
    \/ BreakerBudget /\ Probe(ServerA)
    \/ /\ now < MaxTicks * TickMs
       /\ adapter[ServerA].circuitBreakerState = "open"
       /\ Tick

SpecBreaker == Init /\ [][NextBreaker]_vars

\* The same backend with a client calling its tool through the gateway.
NextBreakerCalls ==
    \/ NextBreaker
    \/ /\ BreakerBudget
       /\ client.nextId <= MaxBreakerCalls
       /\ RouteCall("tools/call", createNamespacedName(ServerA, NameX), "given")

SpecBreakerCalls == Init /\ [][NextBreakerCalls]_vars

\* The retry supervisor and failed writes beside the start-up of one backend.
NextSupervisor ==
    \/ ~Registered(World, ServerA) /\ RegisterServer(ServerA)
    \/ StartConnected(ServerA)
    \/ ConnectFailed(ServerA)
    \/ \E code \in BackendCodes : BackendReply(ServerA, code)
    \/ RequestTimeout(ServerA)
    \/ SendRawFailed(ServerA)
    \/ TransportLost(ServerA)
    \/ StartsUsed < MaxStarts + retryMaxRetries /\ RetryTimerFires(ServerA)

SpecSupervisor == Init /\ [][NextSupervisor]_vars

\* The same with a client calling the backend's tool, resource and prompt
\* through the gateway.
SupervisedCalls ==
    {Call("tools/call", createNamespacedName(ServerA, NameX), "given"),
     Call("resources/read", createNamespacedUri(ServerA, NameX), "absent"),
     Call("prompts/get", createNamespacedName(ServerA, NameX), "absent")}

NextSupervisorCalls ==
    \/ NextSupervisor
    \/ \E c \in SupervisedCalls :
          /\ client.nextId <= MaxClientRequests
          /\ Registered(World, ServerA)
          /\ WouldStart(c) => StartsUsed < MaxStarts + retryMaxRetries
          /\ RouteCall(c.method, c.name, c.args)

SpecSupervisorCalls == Init /\ [][NextSupervisorCalls]_vars

\* One backend, of either transport, with its requests: health probes sent
\* while others are outstanding, replies, deadlines, failed writes, the loss
\* of the transport, stop() and the exits of dropped children.
RequestBudget(s) ==
    /\ adapter[s].nextRequestId <= MaxRequestId
    /\ Cardinality(adapter[s].pendingRequests) < MaxPending

\* One call for each backend.
RequestCalls ==
    {Call("tools/call", createNamespacedName(ServerA, NameX), "given"),
     Call("resources/read", createNamespacedUri(ServerB, NameX), "absent")}

NextRequests ==
    \/ \E s \in ServerIds : registry = <<>> /\ RegisterServer(s)
    \/ \E s \in ServerIds : StartConnected(s)
    \/ \E s \in ServerIds, code \in BackendCodes : BackendReply(s, code)
    \/ \E s \in ServerIds : RequestTimeout(s)
    \/ \E s \in ServerIds : InitTimeout(s)
    \/ \E s \in ServerIds : SendRawFailed(s)
    \/ \E s \in ServerIds : TransportLost(s)
    \/ \E s \in ServerIds : Stop(s)
    \/ \E s \in ServerIds : OrphanExit(s)
    \/ \E s \in ServerIds : StopTimeout(s)
    \/ \E s \in ServerIds : RequestBudget(s) /\ Probe(s)
    \/ \E c \in RequestCalls :
          /\ client.nextId <= MaxClientRequests
          /\ Registered(World, ParsedServer(c))
          /\ isConnected(adapter[ParsedServer(c)])
          /\ RequestBudget(ParsedServer(c))
          /\ RouteCall(c.method, c.name, c.args)

SpecRequests == Init /\ [][NextRequests]_vars

\* The registry under registrations of either backend id, registered already
\* or not, while the adapters start and lose their transports.
NextRegistry ==
    \/ \E s \in ServerIds : RegisterServer(s)
    \/ \E s \in ServerIds : StartConnected(s)
    \/ \E s \in ServerIds : ConnectFailed(s)
    \/ \E s \in ServerIds, code \in BackendCodes : BackendReply(s, code)
    \/ \E s \in ServerIds : TransportLost(s)

SpecRegistry == Init /\ [][NextRegistry]_vars

\* The sessions of one client under the clock: streams opened and closed,
\* messages posted, and the sweep firing at its interval.
NextSessions ==
    \/ front.nextSession <= MaxSessions /\ GetSse("c1")
    \/ \E sid \in 0..MaxSessions + 1 :
          front.nextPost <= MaxPosts /\ PostMessage("c1", sid)
    \/ PostReturns
    \/ StreamCloses
    \/ Sweep
    \/ /\ now < MaxSessionTicks * TickMs
       /\ now - front.lastSweep < sweepInterval
       /\ Tick

SpecSessions == Init /\ [][NextSessions]_vars

\* The event streams of two clients: streams opened, broken and closed,
\* heartbeats, messages posted and answered.
NextStreams ==
    \/ \E c \in Clients : front.nextSession <= MaxSessions /\ GetSse(c)
    \/ \E c \in Clients, sid \in 0..MaxSessions + 1 :
          front.nextPost <= MaxPosts /\ PostMessage(c, sid)
    \/ PostReturns
    \/ StreamBreaks
    \/ Heartbeat
    \/ StreamCloses

SpecStreams == Init /\ [][NextStreams]_vars

\* =================================================================== claims
\* ---------------------------------------------------------------------- C1
\* C1: for every backend id s the identifier pattern admits and every
\* non-empty name n, parseNamespacedName(createNamespacedName(s, n)) returns
\* exactly (serverId = s, originalName = n).
C1_RoundTrip ==
    ns.pc = "parsed" =>
        /\ ns.parsedA = [serverId |-> ns.a.serverId, originalName |-> ns.a.name]
        /\ ns.parsedB = [serverId |-> ns.b.serverId, originalName |-> ns.b.name]

\* ---------------------------------------------------------------------- C2
\* C2: two distinct admitted backend ids never give the same namespaced name,
\* whatever the item names are.
C2_NoCollision ==
    (ns.pc \in {"created", "parsed"} /\ ns.a.serverId # ns.b.serverId)
        => ns.nameA # ns.nameB

\* ------------------------------------------------------- steps of a client
\* The step hands call c to the gateway as the client's next request.
IsArrival(c) ==
    /\ client'.nextId = client.nextId + 1
    /\ \/ \E r \in client'.inflight :
             /\ r.cid = client.nextId
             /\ r.method = c.method /\ r.name = c.name /\ r.args = c.args
       \/ /\ client'.reply.cid = client.nextId
          /\ client'.reply.method = c.method
          /\ client'.reply.name = c.name
          /\ client'.reply.args = c.args

\* The requests the step writes to the transport of backend s.
Written(s) == backend'[s] \ backend[s]

\* The step writes no tools/call, resources/read or prompts/get anywhere.
NoCallSent ==
    \A s \in ServerIds : \A m \in Written(s) : m.method \notin CallMethods

\* The step answers client request cid with error -32000 under the client's id.
Refused(cid) ==
    /\ client'.reply.cid = cid
    /\ client'.reply.code = CodeServer
    /\ client'.reply.id = ClientRequestId(cid)
    /\ \A r \in client'.inflight : r.cid # cid

\* ---------------------------------------------------------------------- C3
\* C3: a tools/call named createNamespacedName(s, n) that arrives while s is
\* registered and healthy (its transport connected) writes exactly one
\* request, on the transport of s and nowhere else: a tools/call with the
\* name n and the client's arguments.
C3_Forwarding ==
    [][\A s \in ServerIds, n \in {NameX, NameUX} :
          LET c == Call("tools/call", createNamespacedName(s, n), "given")
          IN  (IsArrival(c) /\ Registered(World, s)
                            /\ adapter[s].health = "healthy"
                            /\ isConnected(adapter[s]))
              => /\ Written(s) = {Msg(adapter[s].nextRequestId, "tools/call",
                                      n, c.args)}
                 /\ \A o \in ServerIds \ {s} : Written(o) = {}]_vars

\* ---------------------------------------------------------------------- C4

HealthyItems(group) ==
    UNION {{[serverId |-> s, item |-> adapter[s].capabilities[group][j]] :
               j \in 1..Len(adapter[s].capabilities[group])} :
           s \in {x \in ServerIds : /\ Registered(World, x)
                                    /\ adapter[x].health = "healthy"}}

Range(seq) == {seq[i] : i \in 1..Len(seq)}

ListedName(group, e) ==
    IF group = "resources" THEN createNamespacedUri(e.serverId, e.item)
    ELSE createNamespacedName(e.serverId, e.item)

\* C5: in every state, each group that getMergedCapabilities returns holds
\* exactly the cached items of the healthy adapters, each once; and a
\* tools/list, resources/list or prompts/list answers with exactly their
\* namespaced names.
C5_MergedExact ==
    /\ [](\A i \in 1..Len(Groups) :
             LET merged == getMergedCapabilities(World)[Groups[i]]
             IN  /\ Range(merged) = HealthyItems(Groups[i])
                 /\ Len(merged) = Cardinality(HealthyItems(Groups[i])))
    /\ [][\A i \in 1..Len(Groups) :
             (/\ client'.nextId = client.nextId + 1
              /\ client'.reply.cid = client.nextId
              /\ client'.reply.method = Groups[i] \o "/list")
             => /\ Range(client'.reply.result) =
                       {ListedName(Groups[i], e) : e \in HealthyItems(Groups[i])}
                /\ Len(client'.reply.result) =
                       Cardinality(HealthyItems(Groups[i]))]_vars

\* A list was answered with items while a registered adapter that has cached
\* tools was not healthy.
C5_Witness ==
    /\ client.reply.method = "tools/list"
    /\ client.reply.result # <<>>
    /\ \E s \in ServerIds :
          /\ Registered(World, s)
          /\ adapter[s].health # "healthy"
          /\ adapter[s].capabilities.tools # <<>>

\* ---------------------------------------------------------------------- C6
\* C6: whenever a breaker goes to open, its consecutiveFailures is at least
\* failureThreshold and its totalRequests at least volumeThreshold.
C6_OpensOnlyOverThresholds ==
    [][\A s \in ServerIds :
          (/\ adapter'[s].circuitBreakerState = "open"
           /\ adapter[s].circuitBreakerState # "open")
          => /\ adapter'[s].consecutiveFailures >= failureThreshold
             /\ adapter'[s].totalRequests >= volumeThreshold]_vars

\* A breaker has opened.
C6_Witness == adapter[ServerA].circuitBreakerState = "open"

\* ---------------------------------------------------------------------- C7
\* The sendRequest calls made on s in the step (each takes one request id).
Sent(s) == adapter'[s].nextRequestId - adapter[s].nextRequestId

\* C7: while the breaker of s is open and its timeout has not elapsed, a step
\* that calls sendRequest on s writes nothing to the transport of s, adds no
\* entry to pendingRequests, and records a failure for each call.
C7_OpenRejects ==
    [][\A s \in ServerIds :
          (/\ adapter[s].circuitBreakerState = "open"
           /\ now - adapter[s].lastStateChange < circuitTimeout
           /\ Sent(s) > 0)
          => /\ Written(s) = {}
             /\ adapter'[s].pendingRequests \subseteq adapter[s].pendingRequests
             /\ adapter'[s].totalRequests >= adapter[s].totalRequests + Sent(s)
             /\ adapter'[s].circuitBreakerState = "open"]_vars

\* The open breaker has rejected a request: errorCount counts every failure
\* but those, so more consecutive failures than errors means a rejection.
C7_Witness ==
    /\ adapter[ServerA].circuitBreakerState = "open"
    /\ now - adapter[ServerA].lastStateChange < circuitTimeout
    /\ adapter[ServerA].consecutiveFailures > adapter[ServerA].errorCount

\* ---------------------------------------------------------------------- C8
\* C8: a tools/call that arrives for a backend whose breaker is open (the
\* timeout not elapsed) is answered with error -32603 whose data has the
\* circuit-open reason and the breaker status, and nothing is written to the
\* backend.
C8_OpenAnswersInternal ==
    [][LET c == Call("tools/call", createNamespacedName(ServerA, NameX), "given")
       IN  (/\ IsArrival(c)
            /\ Registered(World, ServerA)
            /\ adapter[ServerA].circuitBreakerState = "open"
            /\ now - adapter[ServerA].lastStateChange < circuitTimeout)
           => /\ client'.reply.cid = client.nextId
              /\ client'.reply.code = CodeInternal
              /\ client'.reply.data.reason = CircuitOpenData(adapter'[ServerA]).reason
              /\ client'.reply.data.circuitBreakerStatus = "open"
              /\ Written(ServerA) = {}]_vars

\* ---------------------------------------------------------------------- C9
\* C9: a step that calls sendRequest on s while the breaker of s is open and
\* its timeout has elapsed lets the request through (an entry is added and
\* the request written) and leaves the breaker half-open; and a half-open
\* breaker has recorded fewer than successThreshold consecutive successes,
\* the one that reaches the threshold closes it.
C9_Recovery ==
    /\ [][\A s \in ServerIds :
             (/\ adapter[s].circuitBreakerState = "open"
              /\ now - adapter[s].lastStateChange >= circuitTimeout
              /\ Sent(s) > 0
              /\ canSendRaw(adapter'[s]))
             => /\ adapter'[s].circuitBreakerState = "half-open"
                /\ \E m \in Written(s) : m.id = adapter[s].nextRequestId
                /\ \E e \in adapter'[s].pendingRequests :
                      e.id = adapter[s].nextRequestId]_vars
    /\ [][\A s \in ServerIds :
             (/\ adapter[s].circuitBreakerState = "half-open"
              /\ adapter'[s].consecutiveSuccesses >= successThreshold)
             => adapter'[s].circuitBreakerState = "closed"]_vars
    /\ [](\A s \in ServerIds :
             adapter[s].circuitBreakerState = "half-open"
             => adapter[s].consecutiveSuccesses < successThreshold)

\* A breaker has closed again: it was constructed closed at time 0 and is set
\* to closed only from half-open, which stamps the time.
C9_Witness ==
    /\ adapter[ServerA].circuitBreakerState = "closed"
    /\ adapter[ServerA].lastStateChange >= circuitTimeout

\* --------------------------------------------------------------------- C10
\* C10: a step that records a failure while the breaker is half-open leaves
\* it open, whatever the counters are.
C10_HalfOpenFailureReopens ==
    [][\A s \in ServerIds :
          (/\ adapter[s].circuitBreakerState = "half-open"
           /\ adapter'[s].totalRequests = adapter[s].totalRequests + 1
           /\ adapter'[s].consecutiveFailures = adapter[s].consecutiveFailures + 1)
          => adapter'[s].circuitBreakerState = "open"]_vars

\* --------------------------------------------------------------------- C11
\* C11: a step that records one success sets consecutiveFailures to 0; a
\* step that records one failure sets consecutiveSuccesses to 0 and adds
\* exactly one to consecutiveFailures; and in every state at most one of the
\* two counters is non-zero.
C11_Counters ==
    /\ [](\A s \in ServerIds :
             \/ adapter[s].consecutiveFailures = 0
             \/ adapter[s].consecutiveSuccesses = 0)
    /\ [][\A s \in ServerIds :
             adapter'[s].totalRequests = adapter[s].totalRequests + 1
             => \/ adapter'[s].consecutiveFailures = 0
                \/ /\ adapter'[s].consecutiveSuccesses = 0
                   /\ adapter'[s].consecutiveFailures =
                          adapter[s].consecutiveFailures + 1]_vars

\* A success has been recorded after a failure: errorCount counts the error
\* replies and timeouts, consecutiveSuccesses the successes since the last.
C11_Witness ==
    /\ adapter[ServerA].errorCount >= 1
    /\ adapter[ServerA].consecutiveSuccesses >= 1
    /\ adapter[ServerA].consecutiveFailures = 0

PendingIds(a) == {e.id : e \in a.pendingRequests}

\* C13: every request id an adapter has issued is either outstanding (it has
\* its entry in the table, its deadline timer armed, its promise unsettled)
\* or settled (no entry, no timer), never both and never neither; a settled
\* id stays settled, so no later reply, deadline or cancellation brings back
\* an entry or a timer for it; and a step settles only ids that were
\* outstanding before it or were issued in it.
C13_SettledOnce ==
    /\ [](\A s \in ServerIds :
             /\ adapter[s].timers = PendingIds(adapter[s])
             /\ adapter[s].settled \cap PendingIds(adapter[s]) = {}
             /\ adapter[s].settled \cup PendingIds(adapter[s]) =
                    1..(adapter[s].nextRequestId - 1))
    /\ [][\A s \in ServerIds :
             Registered(World, s) =>
                /\ adapter[s].settled \subseteq adapter'[s].settled
                /\ \A id \in adapter'[s].settled \ adapter[s].settled :
                       \/ id \in PendingIds(adapter[s])
                       \/ id >= adapter[s].nextRequestId]_vars

\* A request has been settled by its deadline or by a cancellation while the
\* backend has not answered it yet, so that its reply can still arrive.
C13_Witness ==
    \E s \in ServerIds :
        /\ adapter[s].transport = "open"
        /\ \E m \in backend[s] : m.id \in adapter[s].settled

\* --------------------------------------------------------------------- C14
\* Who awaits the outstanding request id of adapter record a.
AwaiterOf(a, id) == (CHOOSE e \in a.pendingRequests : e.id = id).awaiter

\* Between adapter records a and b the transport was neither stopped nor
\* started: the same process / event stream, no start() run begun, no child
\* dropped, no stop() begun.
TransportUntouched(a, b) ==
    /\ b.transport = a.transport
    /\ b.endpoint = a.endpoint
    /\ b.starts = a.starts
    /\ b.orphans = a.orphans
    /\ b.stopping = a.stopping

\* The requests that were issued between adapter records a and b and refused
\* at once (by the open breaker or by the send): each of them records a
\* failure of its own.
RefusedSince(a, b) ==
    {i \in a.nextRequestId .. (b.nextRequestId - 1) : i \in b.settled}

\* The deadline of outstanding request id of backend s elapses: the entry is
\* removed, errorCount grows by one, one failure is recorded on the breaker
\* for it (a handshake that goes on to its next request in the same step
\* records one more for each request refused at once), and a routed call is
\* answered with the timeout error.
TimeoutEvicts(s, id) ==
    LET a == adapter[s]
        aw == AwaiterOf(a, id)
        w == requestTimedOut(World, s, id)
        b == w.adapter[s]
    IN  /\ id \notin PendingIds(b)
        /\ id \notin b.timers
        /\ id \in b.settled
        /\ b.errorCount = a.errorCount + 1
        /\ b.totalRequests
              = a.totalRequests + 1 + Cardinality(RefusedSince(a, b))
        /\ b.consecutiveFailures
              = a.consecutiveFailures + 1 + Cardinality(RefusedSince(a, b))
        /\ b.consecutiveSuccesses = 0
        /\ aw.kind # "handshake" => RefusedSince(a, b) = {}
        /\ aw.kind = "route" =>
              /\ w.client.reply.cid = aw.cid
              /\ w.client.reply.code = CodeServer
              /\ w.client.reply.message = "Request timeout"
              /\ \A r \in w.client.inflight : r.cid # aw.cid

\* The request is the initialize request that a stdio start() in progress
\* awaits.
IsStartInitialize(a, id) ==
    /\ a.kind = "stdio"
    /\ AwaiterOf(a, id).kind = "handshake"
    /\ AwaiterOf(a, id).phase = "initialize"
    /\ attached(a, AwaiterOf(a, id).run)

\* C14 (as amended): in every state, for every outstanding request whose
\* deadline can elapse next, the deadline removes its entry, adds one to
\* errorCount, records one failure on the breaker and fails the awaiter with
\* the timeout error; and it leaves the transport as it is, unless the
\* request is the initialize request of a stdio start() in progress, whose
\* failure makes start() kill the child.
C14_Timeout ==
    \A s \in ServerIds :
        Registered(World, s) =>
            \A id \in adapter[s].timers :
                TimerMayFire(adapter[s], id) =>
                    /\ TimeoutEvicts(s, id)
                    /\ ~IsStartInitialize(adapter[s], id) =>
                          TransportUntouched(
                              adapter[s],
                              requestTimedOut(World, s, id).adapter[s])

\* C14 as stated: the deadline of any outstanding request leaves the
\* transport as it is.
C14_AsStated ==
    \A s \in ServerIds :
        Registered(World, s) =>
            \A id \in adapter[s].timers :
                TimerMayFire(adapter[s], id) =>
                    /\ TimeoutEvicts(s, id)
                    /\ TransportUntouched(
                           adapter[s],
                           requestTimedOut(World, s, id).adapter[s])

\* A routed call has been answered with the timeout error while its backend
\* stayed connected.
C14_Witness ==
    /\ client.reply.message = "Request timeout"
    /\ client.reply.code = CodeServer
    /\ \E s \in ServerIds :
          /\ s = ParsedServer(client.reply)
          /\ isConnected(adapter[s])
          /\ adapter[s].errorCount >= 1

\* --------------------------------------------------------------------- C15
\* C15: in one recovery cycle the supervisor schedules at most as many
\* restart attempts as the maxRetries configured for the backend (retryCount
\* is the number of attempts scheduled since the last successful start), and
\* a retry timer is armed only while fewer than that many were scheduled.
C15_RetryBound ==
    /\ [](\A s \in ServerIds :
            Registered(World, s) =>
                adapter[s].retryCount <= ConfigMaxRetries(s))
    /\ [][\A s \in ServerIds :
            (Registered(World, s)
               /\ adapter'[s].retryTimers > adapter[s].retryTimers)
            => adapter[s].retryCount < ConfigMaxRetries(s)]_vars

\* --------------------------------------------------------------------- C16
\* The retry supervisor of backend s has given up: the adapter is unhealthy,
\* every attempt of the cycle was made and failed, no retry timer is armed
\* and no start() is running.
Exhausted(s) ==
    /\ Registered(World, s)
    /\ adapter[s].health = "unhealthy"
    /\ adapter[s].retryCount >= retryMaxRetries
    /\ adapter[s].retryTimers = 0
    /\ ~adapter[s].isStarting

\* C16: once the supervisor has exhausted its attempts, a route leaves the
\* adapter unhealthy, begins no start() run and is answered with -32000.
C16_Terminal ==
    [][\A c \in SupervisedCalls :
          (Exhausted(ParsedServer(c)) /\ IsArrival(c))
          => /\ adapter'[ParsedServer(c)].health = "unhealthy"
             /\ adapter'[ParsedServer(c)].starts
                   = adapter[ParsedServer(c)].starts
             /\ client'.reply.cid = client.nextId
             /\ client'.reply.code = CodeServer]_vars

\* --------------------------------------------------------------------- C17
\* Every request that was in flight in adapter record a of backend s is
\* cancelled in world w: its entry and its timer are gone, its promise is
\* settled, a routed call that awaited it has been answered and a start()
\* that awaited it has returned; what is in the table was issued afterwards.
Cancelled(a, w, s) ==
    LET b == w.adapter[s]
    IN  /\ PendingIds(a) \cap PendingIds(b) = {}
        /\ PendingIds(a) \cap b.timers = {}
        /\ PendingIds(a) \subseteq b.settled
        /\ \A i \in PendingIds(b) : i >= a.nextRequestId
        /\ \A e \in a.pendingRequests :
              /\ e.awaiter.kind = "route" =>
                    \A r \in w.client.inflight : r.cid # e.awaiter.cid
              /\ (e.awaiter.kind = "handshake" /\ attached(a, e.awaiter.run))
                    => ~attached(b, e.awaiter.run)
                       \/ \E f \in b.pendingRequests :
                              f.awaiter.kind = "handshake"

\* C17: in every state, stop() and the loss of the transport (the exit of
\* the child, the close of the event stream) cancel every request in flight.
C17_Cancellation ==
    \A s \in ServerIds :
        Registered(World, s) =>
            /\ Cancelled(adapter[s], stop(World, s), s)
            /\ adapter[s].transport = "open" =>
                  Cancelled(adapter[s], transportLost(World, s), s)
            /\ \A run \in adapter[s].orphans :
                  Cancelled(adapter[s], orphanExited(World, s, run), s)

\* --------------------------------------------------------------------- C18
\* C18: stop() on an adapter whose health is starting, healthy or unhealthy
\* leaves the health at stopped once it has completed: at once when it has
\* no child's exit to await, and otherwise at the step in which the exit or
\* its timer ends the wait.
C18_StopStops ==
    /\ [](\A s \in ServerIds :
            (Registered(World, s) /\ adapter[s].health # "stopped")
            => LET b == stop(World, s).adapter[s]
               IN  b.stopping = 0 => b.health = "stopped")
    /\ [][\A s \in ServerIds :
            (Registered(World, s)
               /\ adapter[s].stopping # 0 /\ adapter'[s].stopping = 0)
            => adapter'[s].health = "stopped"]_vars

\* --------------------------------------------------------------------- C19
\* C19: a start() whose handshake is past the initialize request and awaits
\* one of the list calls is not aborted by the outcome of a list call: the
\* step in which it returns leaves the adapter healthy with a capability set
\* cached.
C19_Tolerance ==
    [][\A s \in ServerIds :
          (Registered(World, s)
             /\ HandshakeAwaits(adapter[s], {"tools", "resources", "prompts"})
             /\ ~adapter'[s].isStarting)
          => /\ adapter'[s].health = "healthy"
             /\ adapter'[s].capabilities.present]_vars

\* --------------------------------------------------------------------- C20
\* C20: in every state no backend id occurs twice in the registry, and
\* registerServer with a registered id is rejected and leaves the registry,
\* every adapter (its health included) and every backend as they are.
C20_UniqueIds ==
    /\ \A i, j \in 1..Len(registry) : registry[i] = registry[j] => i = j
    /\ \A s \in ServerIds :
          Registered(World, s) =>
              LET w == registerServer(World, s)
              IN  /\ w.registry = registry
                  /\ w.adapter = adapter
                  /\ w.backend = backend
                  /\ w.client.reply = AlreadyRegistered(s)

\* A registration of an id whose adapter is healthy has been rejected while
\* both backends are registered.
C20_Witness ==
    /\ Len(registry) = 2
    /\ \E s \in ServerIds :
          /\ client.reply = AlreadyRegistered(s)
          /\ adapter[s].health = "healthy"
          /\ adapter[s].capabilities.present

\* --------------------------------------------------------------------- C21
\* C21: when the ping of a health probe of a non-stopped adapter is answered
\* with an error, times out or cannot be sent (its entry leaves the table and
\* errorCount grows), the adapter's health is unhealthy after the step.
C21_ProbeMarksUnhealthy ==
    [][\A s \in ServerIds :
          (/\ Registered(World, s)
           /\ adapter[s].health # "stopped"
           /\ adapter'[s].errorCount > adapter[s].errorCount
           /\ \E e \in adapter[s].pendingRequests :
                 /\ e.awaiter.kind = "probe"
                 /\ e \notin adapter'[s].pendingRequests
           /\ \A e \in adapter[s].pendingRequests \ adapter'[s].pendingRequests :
                 e.awaiter.kind = "probe")
          => adapter'[s].health = "unhealthy"]_vars

C29_Teardown ==
    [][\A s \in front.streams :
          (/\ s.pinging /\ ~s.writable
           /\ \A x \in front'.streams : x.id = s.id => ~x.pinging)
          => /\ \A x \in front'.streams : x.id # s.id
             /\ \A x \in front'.sessions : x.id # s.id]_vars

\* --------------------------------------------------------------------- C24
\* C24: when a backend answers the request of a routed call with an error
\* object, the reply to the client carries that code, message and data, with
\* the client's request id.
C24_PassThrough ==
    [][\A s \in ServerIds, code \in BackendCodes \ {0} :
          \A e \in adapter[s].pendingRequests \ adapter'[s].pendingRequests :
              (/\ Registered(World, s)
               /\ e.awaiter.kind = "route"
               /\ adapter'[s].errorCount = adapter[s].errorCount + 1
               /\ \E m \in backend[s] \ backend'[s] : m.id = e.id)
              => /\ client'.reply.cid = e.awaiter.cid
                 /\ client'.reply.id = ClientRequestId(e.awaiter.cid)
                 /\ client'.reply.code = code
                 /\ client'.reply.message = BackendError(code).message
                 /\ client'.reply.data = BackendError(code).data
                 /\ \A r \in client'.inflight : r.cid # e.awaiter.cid]_vars

\* The client holds a reply with the backend's error object.
C24_Witness ==
    /\ client.reply.cid >= 1
    /\ client.reply.code \in BackendCodes \ {0}
    /\ client.reply.message = BackendError(client.reply.code).message
    /\ client.reply.data = BackendError(client.reply.code).data
    /\ client.reply.id = ClientRequestId(client.reply.cid)

\* --------------------------------------------------------------------- C25
\* C25: for every backend id s the identifier pattern admits and every
\* non-empty original URI u, also one that begins with a letter-led token and
\* "://", parseNamespacedUri(createNamespacedUri(s, u)) returns exactly
\* (serverId = s, originalName = u).
C25_UriRoundTrip ==
    ns.pc = "parsedUri" =>
        ns.parsedA = [serverId |-> ns.a.serverId, originalName |-> ns.a.name]

\* --------------------------------------------------------------------- C26
\* The part of str before its first occurrence of sep, and the part after it.
Before(str, sep) == Substring(str, 0, IndexOf(str, sep))
After(str, sep) == Substring(str, IndexOf(str, sep) + Len(sep), Len(str))

\* C26: parseNamespacedName returns null for a string without "__" or with
\* nothing before or after the first "__"; parseNamespacedUri returns null for
\* a string without "://", with nothing after it, or whose part before it does
\* not start with a letter.
C26_Unparseable ==
    /\ ns.pc = "parsed" =>
          ((\/ IndexOf(ns.nameA, NAMESPACE_SEPARATOR) = -1
            \/ Before(ns.nameA, NAMESPACE_SEPARATOR) = <<>>
            \/ After(ns.nameA, NAMESPACE_SEPARATOR) = <<>>)
           => ns.parsedA = NullName)
    /\ ns.pc = "parsedUri" =>
          ((\/ IndexOf(ns.nameA, SchemeSeparator) = -1
            \/ After(ns.nameA, SchemeSeparator) = <<>>
            \/ Before(ns.nameA, SchemeSeparator) = <<>>
            \/ Before(ns.nameA, SchemeSeparator)[1] \notin Letters)
           => ns.parsedA = NullName)

\* A string with a separator and nothing after it was parsed to null.
C26_Witness ==
    /\ ns.pc = "parsed"
    /\ IndexOf(ns.nameA, NAMESPACE_SEPARATOR) >= 1
    /\ After(ns.nameA, NAMESPACE_SEPARATOR) = <<>>
    /\ ns.parsedA = NullName

\* --------------------------------------------------------------------- C27
\* The position of backend s in the registry (0: not registered).
Position(seq, s) ==
    IF \E i \in 1..Len(seq) : seq[i] = s
    THEN CHOOSE i \in 1..Len(seq) : seq[i] = s
    ELSE 0

\* The items of backend s in a merged sequence, in their order there.
RECURSIVE ItemsOf(_, _)
ItemsOf(merged, s) ==
    IF merged = <<>> THEN <<>>
    ELSE IF Head(merged).serverId = s
         THEN <<Head(merged).item>> \o ItemsOf(Tail(merged), s)
         ELSE ItemsOf(Tail(merged), s)

\* seq without s, the others in their order.
RECURSIVE Without(_, _)
Without(seq, s) ==
    IF seq = <<>> THEN <<>>
    ELSE IF Head(seq) = s THEN Without(Tail(seq), s)
         ELSE <<Head(seq)>> \o Without(Tail(seq), s)

\* C27: in each sequence getMergedCapabilities returns, the items of one
\* backend are in the order the backend listed them and the items of
\* different backends in the order of registration: a registration puts the
\* backend after those registered (the configured ones in configured order),
\* an unregistration takes it out and leaves the others as they were.
C27_MergeOrder ==
    /\ [](\A g \in 1..Len(Groups) :
             LET merged == getMergedCapabilities(World)[Groups[g]]
             IN  /\ \A s \in ServerIds :
                        ItemsOf(merged, s) \in {<<>>, BackendItems(s, Groups[g])}
                 /\ \A i, j \in 1..Len(merged) :
                        (i < j /\ merged[i].serverId # merged[j].serverId)
                        => Position(registry, merged[i].serverId)
                               < Position(registry, merged[j].serverId))
    /\ [][\/ registry' = registry
          \/ registry = <<>> /\ registry' = ConfiguredServers
          \/ \E s \in ServerIds :
                \/ ~Registered(World, s) /\ registry' = Append(registry, s)
                \/ Registered(World, s) /\ registry' = Without(registry, s)]_vars

\* Both backends are healthy and the first one configured, registered again
\* after the other, has its tools listed last.
C27_Witness ==
    /\ registry = <<ServerB, ServerA>>
    /\ getMergedCapabilities(World).tools =
          <<[serverId |-> ServerB, item |-> NameX],
            [serverId |-> ServerA, item |-> NameUX],
            [serverId |-> ServerA, item |-> NameX]>>

\* --------------------------------------------------------------------- C28
\* C28: a tools/call or prompts/get without a name, or a resources/read
\* without a uri, whether its params are absent or only lack the member, is
\* answered with error -32602 under the request's id, and nothing is written
\* to any backend.
C28_MissingParameter ==
    [][\A c \in ParamCalls :
          (c.name = <<>> /\ IsArrival(c))
          => /\ client'.reply.cid = client.nextId
             /\ client'.reply.code = CodeInvalidParams
             /\ client'.reply.id = ClientRequestId(client.nextId)
             /\ NoCallSent]_vars

\* --------------------------------------------------------------------- C30
\* C30: stop() on a child-process adapter signals the child; when the timer
\* of the stop fires and that child has not exited, the same child is sent
\* SIGKILL; the stop completes on the exit of the child or on the timer.
C30_Escalation ==
    [][\A s \in ServerIds :
          LET a == adapter[s]
              b == adapter'[s]
          IN  /\ (a.kind = "stdio" /\ a.stopping = 0 /\ b.stopping # 0)
                 => b.stopping = a.starts /\ a.starts \in b.orphans
              /\ (/\ a.stopping # 0 /\ b.stopping = 0
                  /\ a.stopping \in a.orphans /\ a.stopping \in b.orphans)
                 => a.stopping \in b.sigkill]_vars

\* --------------------------------------------------------------------- C31
\* C31: a call routed to a registered backend that is not connected gets the
\* adapter only after a start attempt has finished, also when a start is
\* already in progress: the step in which the call arrives does not refuse
\* it as not healthy.
C31_LazyStart ==
    [][\A c \in Calls :
          LET s == ParsedServer(c)
          IN  (/\ IsArrival(c)
               /\ s \in ServerIds
               /\ Registered(World, s)
               /\ ~isConnected(adapter[s]))
              => ~Refused(client.nextId)]_vars

\* --------------------------------------------------------------------- C32
\* C32: an adapter that unregisterServer has removed is absent from the
\* registry, its health is stopped and it has no running child and no open
\* event stream, also when calls were routed to it while its stop was in
\* progress.
C32_Removal ==
    \A s \in ServerIds :
        ~Registered(World, s) =>
            /\ adapter[s].health = "stopped"
            /\ adapter[s].transport \notin {"open", "connecting"}
            /\ adapter[s].orphans = {}

\* --------------------------------------------------------------------- C33
\* C33: a retry timer that fires on an adapter that has been stopped starts
\* nothing: the health stays stopped and no start() run begins.
C33_NoRetryAfterStop ==
    [][\A s \in ServerIds :
          (/\ Registered(World, s)
           /\ adapter[s].health = "stopped"
           /\ adapter'[s].retryTimers < adapter[s].retryTimers)
          => /\ adapter'[s].health = "stopped"
             /\ adapter'[s].starts = adapter[s].starts]_vars

\* --------------------------------------------------------------------- C34
\* The children of adapter a known to be running: the one it references, and
\* the one a stop() in progress has sent SIGTERM and that has not exited.
LiveChildren(a) ==
    (IF a.transport = "open" THEN {a.starts} ELSE {})
        \cup {run \in a.orphans : run = a.stopping}

\* C34: in every state a child-process adapter has at most one live child.
C34_OneChild ==
    \A s \in ServerIds :
        adapter[s].kind = "stdio" => Cardinality(LiveChildren(adapter[s])) <= 1

\* --------------------------------------------------------------------- C35
\* C35: when the breaker of an adapter whose transport is connected returns
\* to closed, the adapter's health is healthy again.
C35_RecoveryRestoresRouting ==
    [][\A s \in ServerIds :
          (/\ Registered(World, s)
           /\ adapter[s].circuitBreakerState = "half-open"
           /\ adapter'[s].circuitBreakerState = "closed"
           /\ isConnected(adapter'[s])
           /\ ~adapter'[s].isStarting)
          => adapter'[s].health = "healthy"]_vars

\* --------------------------------------------------------------------- C36
\* C36: in every state, each event stream in the stream table belongs to a
\* session the gateway holds.
C36_StreamsHaveSessions ==
    {s.id : s \in front.streams} \subseteq {x.id : x \in front.sessions}

\* --------------------------------------------------------------------- C37
\* C37: recordSuccess and recordFailure are called at most once in total for
\* each request id. Every call adds one to totalRequests and only ids whose
\* promise is settled have had an outcome, so in every state totalRequests
\* is at most the number of settled ids.
C37_OneOutcome ==
    \A s \in ServerIds :
        adapter[s].totalRequests <= Cardinality(adapter[s].settled)

\* --------------------------------------------------------------------- C38
\* C38: in every state, an adapter whose breaker is open is not healthy.
C38_OpenIsNotHealthy ==
    \A s \in ServerIds :
        (Registered(World, s) /\ adapter[s].circuitBreakerState = "open")
            => adapter[s].health # "healthy"

\* --------------------------------------------------------------------- C39
\* C39: a backend registered with enabled = false is never started: no
\* start() run begins, its transport stays absent and its health stopped.
C39_DisabledStaysStopped ==
    \A s \in ServerIds :
        Registered(World, s) =>
            /\ adapter[s].starts = 0
            /\ adapter[s].transport = "none"
            /\ adapter[s].health = "stopped"

\* --------------------------------------------------------------------- C40
\* C40: every start attempt terminates: whatever the backend does, a start()
\* in progress eventually returns or raises.
C40_StartTerminates ==
    \A s \in ServerIds : adapter[s].isStarting ~> ~adapter[s].isStarting

====
